---- MODULE Spec2Model ----
(***************************************************************************)
(* test2witness: the instrumentation engine and the witness builder.       *)
(*                                                                         *)
(*   Spec      the tree traversal of _instrument (LocationAnalysis and     *)
(*             Instrumenter run in lock step over a parsed program),       *)
(*             followed by ProgramInstrumenter.code and the file write.    *)
(*   SpecCode  ProgramInstrumenter.code applied to bounded source texts    *)
(*             and patch lists.                                            *)
(*   SpecPipe  instrument / support_extensions: comment stripping,         *)
(*             extension masking, the instrumentation callback,            *)
(*             restoration and the file write.                             *)
(*   SpecWitness  _populate_witness on bounded trace outputs.              *)
(*                                                                         *)
(* A text is a sequence of symbols.  In SpecCode and SpecPipe a symbol is  *)
(* one character.  In Spec a symbol is one lexical token or one blank, so  *)
(* columns count tokens; the syntax trees are those the external parser    *)
(* yields for the programs listed below.                                   *)
(***************************************************************************)
EXTENDS Integers, Sequences, FiniteSets, TLC

VARIABLES
  pc,               \* position in the pipeline
  source_lines,     \* program_ast.source_lines
  instrumentation,  \* _state.instrumentation: the patch list, in production order
  output,           \* the pieces ProgramInstrumenter.code appended (before the join)
  output_file,      \* the output file: [written, text]
  prog,             \* Spec: name of the parsed program
  node,             \* Spec: the tree cursor's node
  phase,            \* Spec: "visit" before on_visit(node), "leave" before on_leave(node)
  line,             \* _state.line
  line_offset,      \* _state.line_offset
  scope,            \* Instrumenter.scope
  active,           \* the composition's active flag per visitor
  resume_on,        \* the node on which a paused visitor resumes (0: none)
  bad_entry,        \* history: a node was presented whose start lies before the cursor
  source_code,      \* SpecCode, SpecPipe: the text read from the program file
  code,             \* SpecPipe: the local `code` of support_extensions
  replacings,       \* SpecPipe: the restoration list
  scan,             \* SpecPipe: the locals of unsupported_to_extern
  exec_output,      \* SpecWitness: exec_output.splitlines()
  pending,          \* SpecWitness: the lines _parse_observations has not read yet
  observations,     \* SpecWitness: the list _parse_observations builds and returns
  _nodes,           \* SpecWitness: WitnessAutomaton._nodes, in insertion order
  _edges,           \* SpecWitness: WitnessAutomaton._edges, in insertion order
  current_node,     \* SpecWitness: current_node of _populate_witness (its node_id)
  obs_index,        \* SpecWitness: the observation the loop of _populate_witness is at
  wpc               \* SpecWitness: position in _populate_witness

vars == <<pc, source_lines, instrumentation, output, output_file, prog, node, phase,
          line, line_offset, scope, active, resume_on, bad_entry, source_code, code,
          replacings, scan, exec_output, pending, observations, _nodes, _edges,
          current_node, obs_index, wpc>>

walkVars == <<prog, node, phase, line, line_offset, scope, active, resume_on, bad_entry>>
pipeVars == <<code, replacings, scan>>
witnessVars == <<exec_output, pending, observations, _nodes, _edges, current_node, obs_index,
                 wpc>>

----------------------------------------------------------------------------
(* Bounds *)

MaxLen == 3          \* SpecCode: characters of a source text
MaxPatches == 2      \* SpecCode: patches of a patch list
MaxDecls == 3        \* SpecPipe: declarations of a source text
MaxPipePatches == 1  \* SpecPipe: patches the instrumentation callback produces
MaxMasks == 4        \* SpecPipe: rounds of the outer loop of unsupported_to_extern
MaxLines == 3        \* SpecWitness: lines of a trace output

----------------------------------------------------------------------------
(* Texts and coordinates *)

NL == "\n"

\* lexicographic order of (line, column) tuples
PointLess(p, q) == p[1] < q[1] \/ (p[1] = q[1] /\ p[2] < q[2])
PointLeq(p, q) == p = q \/ PointLess(p, q)

\* s[a:b], Python slice with 0 <= a, clipped at the end of s
Slice(s, a, b) == SubSeq(s, a + 1, IF b < Len(s) THEN b ELSE Len(s))
SliceFrom(s, a) == SubSeq(s, a + 1, Len(s))

\* "".join(ss)
RECURSIVE Flatten(_)
Flatten(ss) ==
  IF Len(ss) = 0 THEN <<>>
  ELSE IF Len(ss) = 1 THEN ss[1]
  ELSE Flatten(SubSeq(ss, 1, Len(ss) \div 2)) \o Flatten(SubSeq(ss, Len(ss) \div 2 + 1, Len(ss)))

\* sep.join(ss)
RECURSIVE Join(_, _)
Join(sep, ss) ==
  IF ss = <<>> THEN <<>>
  ELSE IF Len(ss) = 1 THEN ss[1]
  ELSE ss[1] \o sep \o Join(sep, Tail(ss))

\* str.splitlines() for texts whose only line break is "\n"
RECURSIVE splitlines(_)
splitlines(text) ==
  IF text = <<>> THEN <<>>
  ELSE IF \E i \in 1..Len(text) : text[i] = NL
       THEN LET i == CHOOSE k \in 1..Len(text) :
                       text[k] = NL /\ \A j \in 1..(k - 1) : text[j] # NL
            IN <<SubSeq(text, 1, i - 1)>> \o splitlines(SubSeq(text, i + 1, Len(text)))
       ELSE <<text>>

----------------------------------------------------------------------------
(* ProgramInstrumenter.code: the Reconstructor *)

\* a piece of the output list: a slice of the source or an inserted annotation
SrcPiece(t) == [src |-> TRUE, text |-> t]
PatchPiece(t) == [src |-> FALSE, text |-> t]

\* mutant: a patch is placed before the patches of equal coordinate
InsertBeforeTies(s, x) ==
  LET k == Cardinality({i \in 1..Len(s) : PointLess(s[i].pos, x.pos)})
  IN SubSeq(s, 1, k) \o <<x>> \o SubSeq(s, k + 1, Len(s))

\* one insertion of the stable sort: x goes after every patch whose
\* coordinate is <= its own
InsertSorted(s, x) ==
  LET k == Cardinality({i \in 1..Len(s) : PointLeq(s[i].pos, x.pos)})
  IN SubSeq(s, 1, k) \o <<x>> \o SubSeq(s, k + 1, Len(s))

\* sorted(instrumentation, key = lambda x: x[0])
RECURSIVE sorted(_)
sorted(ps) ==
  IF ps = <<>> THEN <<>>
  ELSE InsertSorted(sorted(SubSeq(ps, 1, Len(ps) - 1)), ps[Len(ps)])

\* while current_pos[0] < pos[0]: the rest of each line up to line pos[0], "\n" appended
RECURSIVE FlushLines(_, _, _)
FlushLines(lines, cur, upto) ==
  IF cur[1] < upto
  THEN <<SrcPiece(SliceFrom(lines[cur[1] + 1], cur[2]) \o <<NL>>)>>
         \o FlushLines(lines, <<cur[1] + 1, 0>>, upto)
  ELSE <<>>

\* the body of the loop over the sorted patches, from patch i on
RECURSIVE CodeLoop(_, _, _, _)
CodeLoop(lines, ps, i, cur) ==
  IF i > Len(ps) THEN <<>>
  ELSE
    LET pos == ps[i].pos
        moved == PointLess(cur, pos)
        flushed == IF moved THEN FlushLines(lines, cur, pos[1]) ELSE <<>>
        cur1 == IF moved /\ cur[1] < pos[1] THEN <<pos[1], 0>> ELSE cur
        part == IF moved /\ cur1[2] < pos[2]
                THEN <<SrcPiece(Slice(lines[cur1[1] + 1], cur1[2], pos[2]))>>
                ELSE <<>>
        cur2 == IF moved /\ cur1[2] < pos[2] THEN <<cur1[1], pos[2]>> ELSE cur1
    IN flushed \o part \o <<PatchPiece(ps[i].text)>> \o CodeLoop(lines, ps, i + 1, cur2)

\* ProgramInstrumenter.code up to the final join: the output list.  `sentinel`
\* is the empty annotation of the patch appended at (len(source_lines), 0).
CodePieces(lines, patches, sentinel) ==
  LET ps == sorted(patches)
  IN IF Len(ps) = 0 THEN <<SrcPiece(Join(<<NL>>, lines))>>
     ELSE CodeLoop(lines, ps \o <<[pos |-> <<Len(lines), 0>>, text |-> sentinel]>>, 1, <<0, 0>>)

\* the original text that remains when the inserted pieces are deleted
RECURSIVE SrcOnly(_)
SrcOnly(pieces) ==
  IF pieces = <<>> THEN <<>>
  ELSE (IF Head(pieces).src THEN Head(pieces).text ELSE <<>>) \o SrcOnly(Tail(pieces))

----------------------------------------------------------------------------
(* pretransforms: string primitives (0-based indices, -1: not found) *)

Min(S) == CHOOSE x \in S : \A y \in S : x <= y
Max(S) == CHOOSE x \in S : \A y \in S : x >= y

\* Python's reading of a start index: a negative one counts from the end
NormStart(s, k) == IF k >= 0 THEN k ELSE IF Len(s) + k < 0 THEN 0 ELSE Len(s) + k

\* s.find(c, start) for a one-character c
find(s, c, start) ==
  LET hits == {i \in NormStart(s, start)..(Len(s) - 1) : s[i + 1] = c}
  IN IF hits = {} THEN -1 ELSE Min(hits)

\* s.rfind(c)
rfind(s, c) ==
  LET hits == {i \in 0..(Len(s) - 1) : s[i + 1] = c}
  IN IF hits = {} THEN -1 ELSE Max(hits)

IsAt(s, sub, i) == i + Len(sub) <= Len(s) /\ SubSeq(s, i + 1, i + Len(sub)) = sub

\* re.search(sub, s).start() for a literal sub
search(s, sub) ==
  LET hits == {i \in 0..(Len(s) - Len(sub)) : IsAt(s, sub, i)}
  IN IF hits = {} THEN -1 ELSE Min(hits)

WordChars ==
  {"a", "b", "c", "d", "e", "f", "g", "h", "i", "j", "k", "l", "m", "n", "o", "p", "q", "r",
   "s", "t", "u", "v", "w", "x", "y", "z", "A", "B", "C", "D", "E", "F", "G", "H", "I", "J",
   "K", "L", "M", "N", "O", "P", "Q", "R", "S", "T", "U", "V", "W", "X", "Y", "Z", "0", "1",
   "2", "3", "4", "5", "6", "7", "8", "9", "_"}
SpaceChars == {" ", "\n", "\t", "\r", "\f"}

\* "w": \w, "s": \s, "o": any other character
Class(c) == IF c \in WordChars THEN "w" ELSE IF c \in SpaceChars THEN "s" ELSE "o"

----------------------------------------------------------------------------
(* remove_comments *)

\* where `$` first matches at or after i: before a line break or at the end
LineEnd(s, i) == Min({j \in i..Len(s) : j = Len(s) \/ s[j + 1] = NL})

\* the index after the first "*/" found at or after i, -1 when there is none
BlockEnd(s, i) ==
  LET hits == {j \in i..(Len(s) - 2) : s[j + 1] = "*" /\ s[j + 2] = "/"}
  IN IF hits = {} THEN -1 ELSE Min(hits) + 2

\* the index after the quote closing a literal whose body starts at j, -1 when
\* the literal is not closed: (?:\\.|[^\\'])*'
RECURSIVE QuoteEnd(_, _, _)
QuoteEnd(s, q, j) ==
  IF j >= Len(s) THEN -1
  ELSE IF s[j + 1] = "\\" THEN (IF j + 1 < Len(s) THEN QuoteEnd(s, q, j + 2) ELSE -1)
  ELSE IF s[j + 1] = q THEN j + 1
  ELSE QuoteEnd(s, q, j + 1)

\* the index after the comment or quoted literal starting at i, -1 when none
\* of the four alternatives of the pattern matches there
TokenEnd(s, i) ==
  IF IsAt(s, <<"/", "/">>, i) THEN LineEnd(s, i + 2)
  ELSE IF IsAt(s, <<"/", "*">>, i) THEN BlockEnd(s, i + 2)
  ELSE IF s[i + 1] \in {"'", "\""} THEN QuoteEnd(s, s[i + 1], i + 1)
  ELSE -1

\* re.sub(pattern, replacer, text) from index i on: the text up to the next
\* match is kept, a comment becomes one blank, a quoted literal is kept
RECURSIVE RemoveCommentsFrom(_, _)
RemoveCommentsFrom(s, i) ==
  LET starts == {j \in i..(Len(s) - 1) : TokenEnd(s, j) # -1}
  IN IF starts = {} THEN SliceFrom(s, i)
     ELSE LET j == Min(starts)
          IN Slice(s, i, j)
               \o (IF s[j + 1] = "/" THEN <<" ">> ELSE Slice(s, j, TokenEnd(s, j)))
               \o RemoveCommentsFrom(s, TokenEnd(s, j))

remove_comments(text) == RemoveCommentsFrom(text, 0)

----------------------------------------------------------------------------
(* regex: the whitespace-insensitive pattern of a piece of code *)

\* re.sub(r"\s+", " ", code)
RECURSIVE ShrinkSpace(_)
ShrinkSpace(s) ==
  LET runs == {j \in 1..Len(s) : Class(s[j]) = "s"}
  IN IF runs = {} THEN s
     ELSE LET j == Min(runs)
              rest == {k \in (j + 1)..Len(s) : Class(s[k]) # "s"}
          IN SubSeq(s, 1, j - 1) \o <<" ">>
               \o (IF rest = {} THEN <<>> ELSE ShrinkSpace(SubSeq(s, Min(rest), Len(s))))

\* re.sub of two adjacent characters of classes a and b by "\1 \2"; the scan
\* resumes after the pair
RECURSIVE PairSub(_, _, _)
PairSub(s, a, b) ==
  LET hits == {j \in 1..(Len(s) - 1) : Class(s[j]) = a /\ Class(s[j + 1]) = b}
  IN IF hits = {} THEN s
     ELSE SubSeq(s, 1, Min(hits)) \o <<" ", s[Min(hits) + 1]>>
            \o PairSub(SubSeq(s, Min(hits) + 2, Len(s)), a, b)

\* re.sub(r"(\w) (\w)", r"\1\n\n\2", code)
RECURSIVE WordGap(_)
WordGap(s) ==
  LET hits == {j \in 1..(Len(s) - 2) :
                 Class(s[j]) = "w" /\ s[j + 1] = " " /\ Class(s[j + 2]) = "w"}
  IN IF hits = {} THEN s
     ELSE SubSeq(s, 1, Min(hits)) \o <<NL, NL, s[Min(hits) + 2]>>
            \o WordGap(SubSeq(s, Min(hits) + 3, Len(s)))

SpecialChars == {"\\", "(", ")", "{", "}", "[", "]", ".", "+", "$", "^", "*", "?", "|"}

\* re.sub(r"(?=[\\(){}\[\].+$^*?|])", r"\\", code)
EscapeSpecial(s) ==
  Flatten([i \in 1..Len(s) |-> IF s[i] \in SpecialChars THEN <<"\\", s[i]>> ELSE <<s[i]>>])

\* re.sub(r" ", r"\\s*", code)
BlankToStar(s) ==
  Flatten([i \in 1..Len(s) |-> IF s[i] = " " THEN <<"\\", "s", "*">> ELSE <<s[i]>>])

\* re.sub(r"\n\n", r"\\s+", code)
RECURSIVE GapToPlus(_)
GapToPlus(s) ==
  LET hits == {j \in 1..(Len(s) - 1) : s[j] = NL /\ s[j + 1] = NL}
  IN IF hits = {} THEN s
     ELSE SubSeq(s, 1, Min(hits) - 1) \o <<"\\", "s", "+">>
            \o GapToPlus(SubSeq(s, Min(hits) + 2, Len(s)))

regex(c) ==
  GapToPlus(BlankToStar(EscapeSpecial(
    WordGap(PairSub(PairSub(PairSub(ShrinkSpace(c), "o", "o"), "w", "o"), "o", "w")))))

----------------------------------------------------------------------------
(* re.sub(pattern, repl, text) for the patterns regex and the keyword step    *)
(* produce: literals, \s* and \s+.  No text of the model holds a backslash,   *)
(* so repl is inserted as it stands.                                          *)

\* the compiled pattern: [lit |-> c] or [space |-> "*" or "+"]
RECURSIVE Compile(_)
Compile(pat) ==
  IF pat = <<>> THEN <<>>
  ELSE IF pat[1] = "\\" /\ Len(pat) >= 3 /\ pat[2] = "s" /\ pat[3] \in {"*", "+"}
       THEN <<[lit |-> "", space |-> pat[3]]>> \o Compile(SubSeq(pat, 4, Len(pat)))
  ELSE IF pat[1] = "\\" /\ Len(pat) >= 2
       THEN <<[lit |-> pat[2], space |-> ""]>> \o Compile(SubSeq(pat, 3, Len(pat)))
  ELSE <<[lit |-> pat[1], space |-> ""]>> \o Compile(Tail(pat))

SkipSpace(text, i) ==
  Min({j \in i..Len(text) : j = Len(text) \/ Class(text[j + 1]) # "s"})

\* the end of the match of items k.. at index i, -1 when there is none
RECURSIVE MatchAt(_, _, _, _)
MatchAt(items, k, text, i) ==
  IF k > Len(items) THEN i
  ELSE IF items[k].space = "*" THEN MatchAt(items, k + 1, text, SkipSpace(text, i))
  ELSE IF items[k].space = "+"
       THEN IF i < Len(text) /\ Class(text[i + 1]) = "s"
            THEN MatchAt(items, k + 1, text, SkipSpace(text, i)) ELSE -1
  ELSE IF i < Len(text) /\ text[i + 1] = items[k].lit
       THEN MatchAt(items, k + 1, text, i + 1) ELSE -1

RECURSIVE SubFrom(_, _, _, _)
SubFrom(items, repl, text, i) ==
  LET hits == {j \in i..(Len(text) - 1) : MatchAt(items, 1, text, j) > j}
  IN IF hits = {} THEN SliceFrom(text, i)
     ELSE Slice(text, i, Min(hits)) \o repl
            \o SubFrom(items, repl, text, MatchAt(items, 1, text, Min(hits)))

\* mutant: only the first match is replaced (count = 1)
re_sub_first(pattern, repl, text) ==
  LET items == Compile(pattern)
      hits == {j \in 0..(Len(text) - 1) : MatchAt(items, 1, text, j) > j}
  IN IF hits = {} THEN text
     ELSE Slice(text, 0, Min(hits)) \o repl
            \o SliceFrom(text, MatchAt(items, 1, text, Min(hits)))

\* re.sub(pattern, repl, text): every non-overlapping match is replaced
re_sub(pattern, repl, text) == SubFrom(Compile(pattern), repl, text, 0)

\* text.replace(old, new)
RECURSIVE replace(_, _, _)
replace(text, old, new) ==
  IF search(text, old) = -1 THEN text
  ELSE Slice(text, 0, search(text, old)) \o new
         \o replace(SliceFrom(text, search(text, old) + Len(old)), old, new)

\* for pair in replacings: code = re.sub(pair[0], pair[1], code)
RECURSIVE Restored(_, _)
Restored(text, pairs) ==
  IF pairs = <<>> THEN text
  ELSE Restored(re_sub(pairs[1][1], pairs[1][2], text), Tail(pairs))

----------------------------------------------------------------------------
(* unsupported_to_extern *)

EXTENSION == <<"_", "_", "e", "x", "t", "e", "n", "s", "i", "o", "n", "_", "_">>
EXTERN == <<"e", "x", "t", "e", "r", "n", " ">>

\* the locals at the top of the outer loop body (r is r.start())
ScanStart(c) ==
  [code |-> c, r |-> search(c, EXTENSION), start |-> find(c, "{", 0), open |-> find(c, "{", 0),
   depth |-> 1, close |-> find(c, "}", 0), end |-> 0]

NoScan == [code |-> <<>>, r |-> -1, start |-> -1, open |-> -1, depth |-> 0, close |-> -1,
           end |-> 0]

\* close = code.find("}", close) + 1
NextClose(s) == find(s.code, "}", s.close) + 1

\* the pass of the inner loop ends in break
ScanBreaks(s) ==
  s.close < s.open /\ s.depth - 1 = 0 /\ s.start < s.r /\ s.r < NextClose(s)

\* the locals after one pass of the inner loop that does not raise
ScanStep(s) ==
  IF s.close < s.open
  THEN LET reset == s.depth - 1 = 0 /\ ~ScanBreaks(s)
       IN [s EXCEPT !.end = s.close, !.close = NextClose(s),
                    !.depth = IF reset THEN 1 ELSE s.depth - 1,
                    !.start = IF reset THEN s.open ELSE s.start]
  ELSE [s EXCEPT !.open = find(s.code, "{", s.open + 1), !.depth = s.depth + 1]

\* the pass raises ValueError("Something went wrong")
ScanRaises(s) == ~(s.close < s.open) /\ find(s.code, "{", s.open + 1) = -1

\* the statements after the inner loop: [code, pair]
Masked(s) ==
  LET previous_end == Max({rfind(Slice(s.code, 0, s.start), ";"),
                           rfind(Slice(s.code, 0, s.start), "}")}) + 1
      save == Slice(s.code, previous_end, s.end)
      code1 == Slice(s.code, 0, s.start) \o <<";">> \o SliceFrom(s.code, s.end)
      code2 == Slice(code1, 0, previous_end) \o EXTERN \o SliceFrom(code1, previous_end)
  IN [code |-> code2,
      pair |-> <<regex(Slice(code2, previous_end, s.start + 8)), save>>,
      previous_end |-> previous_end]

----------------------------------------------------------------------------
(* The programs of Spec and their syntax trees (tree-sitter C node types) *)

\* error-marker definition followed by a function that writes and calls the marker
\*   0: void reach_error() { if (x) { y = 1; } }
\*   1: int main() { z = 2; reach_error(); }
ProgError ==
  [lines |-> <<<<"void", " ", "reach_error", "(", ")", " ", "{", " ", "if", " ", "(", "x", ")", " ", "{", " ", "y", " ", "=", " ", "1", ";", " ", "}", " ", "}">>, <<"int", " ", "main", "(", ")", " ", "{", " ", "z", " ", "=", " ", "2", ";", " ", "reach_error", "(", ")", ";", " ", "}">>>>,
   nodes |-> <<
     [type |-> "translation_unit", sp |-> <<0, 0>>, ep |-> <<1, 21>>, parent |-> 0, children |-> <<2, 27>>, fields |-> {}],  \* 1
     [type |-> "function_definition", sp |-> <<0, 0>>, ep |-> <<0, 26>>, parent |-> 1, children |-> <<3, 4, 9>>, fields |-> {<<"type", 3>>, <<"declarator", 4>>, <<"body", 9>>}],  \* 2
     [type |-> "primitive_type", sp |-> <<0, 0>>, ep |-> <<0, 1>>, parent |-> 2, children |-> <<>>, fields |-> {}],  \* 3
     [type |-> "function_declarator", sp |-> <<0, 2>>, ep |-> <<0, 5>>, parent |-> 2, children |-> <<5, 6>>, fields |-> {<<"declarator", 5>>, <<"parameters", 6>>}],  \* 4
     [type |-> "identifier", sp |-> <<0, 2>>, ep |-> <<0, 3>>, parent |-> 4, children |-> <<>>, fields |-> {}],  \* 5
     [type |-> "parameter_list", sp |-> <<0, 3>>, ep |-> <<0, 5>>, parent |-> 4, children |-> <<7, 8>>, fields |-> {}],  \* 6
     [type |-> "(", sp |-> <<0, 3>>, ep |-> <<0, 4>>, parent |-> 6, children |-> <<>>, fields |-> {}],  \* 7
     [type |-> ")", sp |-> <<0, 4>>, ep |-> <<0, 5>>, parent |-> 6, children |-> <<>>, fields |-> {}],  \* 8
     [type |-> "compound_statement", sp |-> <<0, 6>>, ep |-> <<0, 26>>, parent |-> 2, children |-> <<10, 11, 26>>, fields |-> {}],  \* 9
     [type |-> "{", sp |-> <<0, 6>>, ep |-> <<0, 7>>, parent |-> 9, children |-> <<>>, fields |-> {}],  \* 10
     [type |-> "if_statement", sp |-> <<0, 8>>, ep |-> <<0, 24>>, parent |-> 9, children |-> <<12, 13, 17>>, fields |-> {<<"condition", 13>>, <<"consequence", 17>>}],  \* 11
     [type |-> "if", sp |-> <<0, 8>>, ep |-> <<0, 9>>, parent |-> 11, children |-> <<>>, fields |-> {}],  \* 12
     [type |-> "parenthesized_expression", sp |-> <<0, 10>>, ep |-> <<0, 13>>, parent |-> 11, children |-> <<14, 15, 16>>, fields |-> {}],  \* 13
     [type |-> "(", sp |-> <<0, 10>>, ep |-> <<0, 11>>, parent |-> 13, children |-> <<>>, fields |-> {}],  \* 14
     [type |-> "identifier", sp |-> <<0, 11>>, ep |-> <<0, 12>>, parent |-> 13, children |-> <<>>, fields |-> {}],  \* 15
     [type |-> ")", sp |-> <<0, 12>>, ep |-> <<0, 13>>, parent |-> 13, children |-> <<>>, fields |-> {}],  \* 16
     [type |-> "compound_statement", sp |-> <<0, 14>>, ep |-> <<0, 24>>, parent |-> 11, children |-> <<18, 19, 25>>, fields |-> {}],  \* 17
     [type |-> "{", sp |-> <<0, 14>>, ep |-> <<0, 15>>, parent |-> 17, children |-> <<>>, fields |-> {}],  \* 18
     [type |-> "expression_statement", sp |-> <<0, 16>>, ep |-> <<0, 22>>, parent |-> 17, children |-> <<20, 24>>, fields |-> {}],  \* 19
     [type |-> "assignment_expression", sp |-> <<0, 16>>, ep |-> <<0, 21>>, parent |-> 19, children |-> <<21, 22, 23>>, fields |-> {<<"left", 21>>, <<"right", 23>>}],  \* 20
     [type |-> "identifier", sp |-> <<0, 16>>, ep |-> <<0, 17>>, parent |-> 20, children |-> <<>>, fields |-> {}],  \* 21
     [type |-> "=", sp |-> <<0, 18>>, ep |-> <<0, 19>>, parent |-> 20, children |-> <<>>, fields |-> {}],  \* 22
     [type |-> "number_literal", sp |-> <<0, 20>>, ep |-> <<0, 21>>, parent |-> 20, children |-> <<>>, fields |-> {}],  \* 23
     [type |-> ";", sp |-> <<0, 21>>, ep |-> <<0, 22>>, parent |-> 19, children |-> <<>>, fields |-> {}],  \* 24
     [type |-> "}", sp |-> <<0, 23>>, ep |-> <<0, 24>>, parent |-> 17, children |-> <<>>, fields |-> {}],  \* 25
     [type |-> "}", sp |-> <<0, 25>>, ep |-> <<0, 26>>, parent |-> 9, children |-> <<>>, fields |-> {}],  \* 26
     [type |-> "function_definition", sp |-> <<1, 0>>, ep |-> <<1, 21>>, parent |-> 1, children |-> <<28, 29, 34>>, fields |-> {<<"type", 28>>, <<"declarator", 29>>, <<"body", 34>>}],  \* 27
     [type |-> "primitive_type", sp |-> <<1, 0>>, ep |-> <<1, 1>>, parent |-> 27, children |-> <<>>, fields |-> {}],  \* 28
     [type |-> "function_declarator", sp |-> <<1, 2>>, ep |-> <<1, 5>>, parent |-> 27, children |-> <<30, 31>>, fields |-> {<<"declarator", 30>>, <<"parameters", 31>>}],  \* 29
     [type |-> "identifier", sp |-> <<1, 2>>, ep |-> <<1, 3>>, parent |-> 29, children |-> <<>>, fields |-> {}],  \* 30
     [type |-> "parameter_list", sp |-> <<1, 3>>, ep |-> <<1, 5>>, parent |-> 29, children |-> <<32, 33>>, fields |-> {}],  \* 31
     [type |-> "(", sp |-> <<1, 3>>, ep |-> <<1, 4>>, parent |-> 31, children |-> <<>>, fields |-> {}],  \* 32
     [type |-> ")", sp |-> <<1, 4>>, ep |-> <<1, 5>>, parent |-> 31, children |-> <<>>, fields |-> {}],  \* 33
     [type |-> "compound_statement", sp |-> <<1, 6>>, ep |-> <<1, 21>>, parent |-> 27, children |-> <<35, 36, 42, 49>>, fields |-> {}],  \* 34
     [type |-> "{", sp |-> <<1, 6>>, ep |-> <<1, 7>>, parent |-> 34, children |-> <<>>, fields |-> {}],  \* 35
     [type |-> "expression_statement", sp |-> <<1, 8>>, ep |-> <<1, 14>>, parent |-> 34, children |-> <<37, 41>>, fields |-> {}],  \* 36
     [type |-> "assignment_expression", sp |-> <<1, 8>>, ep |-> <<1, 13>>, parent |-> 36, children |-> <<38, 39, 40>>, fields |-> {<<"left", 38>>, <<"right", 40>>}],  \* 37
     [type |-> "identifier", sp |-> <<1, 8>>, ep |-> <<1, 9>>, parent |-> 37, children |-> <<>>, fields |-> {}],  \* 38
     [type |-> "=", sp |-> <<1, 10>>, ep |-> <<1, 11>>, parent |-> 37, children |-> <<>>, fields |-> {}],  \* 39
     [type |-> "number_literal", sp |-> <<1, 12>>, ep |-> <<1, 13>>, parent |-> 37, children |-> <<>>, fields |-> {}],  \* 40
     [type |-> ";", sp |-> <<1, 13>>, ep |-> <<1, 14>>, parent |-> 36, children |-> <<>>, fields |-> {}],  \* 41
     [type |-> "expression_statement", sp |-> <<1, 15>>, ep |-> <<1, 19>>, parent |-> 34, children |-> <<43, 48>>, fields |-> {}],  \* 42
     [type |-> "call_expression", sp |-> <<1, 15>>, ep |-> <<1, 18>>, parent |-> 42, children |-> <<44, 45>>, fields |-> {<<"function", 44>>, <<"arguments", 45>>}],  \* 43
     [type |-> "identifier", sp |-> <<1, 15>>, ep |-> <<1, 16>>, parent |-> 43, children |-> <<>>, fields |-> {}],  \* 44
     [type |-> "argument_list", sp |-> <<1, 16>>, ep |-> <<1, 18>>, parent |-> 43, children |-> <<46, 47>>, fields |-> {}],  \* 45
     [type |-> "(", sp |-> <<1, 16>>, ep |-> <<1, 17>>, parent |-> 45, children |-> <<>>, fields |-> {}],  \* 46
     [type |-> ")", sp |-> <<1, 17>>, ep |-> <<1, 18>>, parent |-> 45, children |-> <<>>, fields |-> {}],  \* 47
     [type |-> ";", sp |-> <<1, 18>>, ep |-> <<1, 19>>, parent |-> 42, children |-> <<>>, fields |-> {}],  \* 48
     [type |-> "}", sp |-> <<1, 20>>, ep |-> <<1, 21>>, parent |-> 34, children |-> <<>>, fields |-> {}]  \* 49
   >>]

\* if without else, if/else with an unbraced consequence, unbraced if around a call
\*   0: int main() { if (x > 0) { y = 1; } if (x) y = 2; else { y = 3; } if (y) f(); }
ProgIf ==
  [lines |-> <<<<"int", " ", "main", "(", ")", " ", "{", " ", "if", " ", "(", "x", " ", ">", " ", "0", ")", " ", "{", " ", "y", " ", "=", " ", "1", ";", " ", "}", " ", "if", " ", "(", "x", ")", " ", "y", " ", "=", " ", "2", ";", " ", "else", " ", "{", " ", "y", " ", "=", " ", "3", ";", " ", "}", " ", "if", " ", "(", "y", ")", " ", "f", "(", ")", ";", " ", "}">>>>,
   nodes |-> <<
     [type |-> "translation_unit", sp |-> <<0, 0>>, ep |-> <<0, 67>>, parent |-> 0, children |-> <<2>>, fields |-> {}],  \* 1
     [type |-> "function_definition", sp |-> <<0, 0>>, ep |-> <<0, 67>>, parent |-> 1, children |-> <<3, 4, 9>>, fields |-> {<<"type", 3>>, <<"declarator", 4>>, <<"body", 9>>}],  \* 2
     [type |-> "primitive_type", sp |-> <<0, 0>>, ep |-> <<0, 1>>, parent |-> 2, children |-> <<>>, fields |-> {}],  \* 3
     [type |-> "function_declarator", sp |-> <<0, 2>>, ep |-> <<0, 5>>, parent |-> 2, children |-> <<5, 6>>, fields |-> {<<"declarator", 5>>, <<"parameters", 6>>}],  \* 4
     [type |-> "identifier", sp |-> <<0, 2>>, ep |-> <<0, 3>>, parent |-> 4, children |-> <<>>, fields |-> {}],  \* 5
     [type |-> "parameter_list", sp |-> <<0, 3>>, ep |-> <<0, 5>>, parent |-> 4, children |-> <<7, 8>>, fields |-> {}],  \* 6
     [type |-> "(", sp |-> <<0, 3>>, ep |-> <<0, 4>>, parent |-> 6, children |-> <<>>, fields |-> {}],  \* 7
     [type |-> ")", sp |-> <<0, 4>>, ep |-> <<0, 5>>, parent |-> 6, children |-> <<>>, fields |-> {}],  \* 8
     [type |-> "compound_statement", sp |-> <<0, 6>>, ep |-> <<0, 67>>, parent |-> 2, children |-> <<10, 11, 29, 51, 64>>, fields |-> {}],  \* 9
     [type |-> "{", sp |-> <<0, 6>>, ep |-> <<0, 7>>, parent |-> 9, children |-> <<>>, fields |-> {}],  \* 10
     [type |-> "if_statement", sp |-> <<0, 8>>, ep |-> <<0, 28>>, parent |-> 9, children |-> <<12, 13, 20>>, fields |-> {<<"condition", 13>>, <<"consequence", 20>>}],  \* 11
     [type |-> "if", sp |-> <<0, 8>>, ep |-> <<0, 9>>, parent |-> 11, children |-> <<>>, fields |-> {}],  \* 12
     [type |-> "parenthesized_expression", sp |-> <<0, 10>>, ep |-> <<0, 17>>, parent |-> 11, children |-> <<14, 15, 19>>, fields |-> {}],  \* 13
     [type |-> "(", sp |-> <<0, 10>>, ep |-> <<0, 11>>, parent |-> 13, children |-> <<>>, fields |-> {}],  \* 14
     [type |-> "binary_expression", sp |-> <<0, 11>>, ep |-> <<0, 16>>, parent |-> 13, children |-> <<16, 17, 18>>, fields |-> {<<"left", 16>>, <<"right", 18>>}],  \* 15
     [type |-> "identifier", sp |-> <<0, 11>>, ep |-> <<0, 12>>, parent |-> 15, children |-> <<>>, fields |-> {}],  \* 16
     [type |-> ">", sp |-> <<0, 13>>, ep |-> <<0, 14>>, parent |-> 15, children |-> <<>>, fields |-> {}],  \* 17
     [type |-> "number_literal", sp |-> <<0, 15>>, ep |-> <<0, 16>>, parent |-> 15, children |-> <<>>, fields |-> {}],  \* 18
     [type |-> ")", sp |-> <<0, 16>>, ep |-> <<0, 17>>, parent |-> 13, children |-> <<>>, fields |-> {}],  \* 19
     [type |-> "compound_statement", sp |-> <<0, 18>>, ep |-> <<0, 28>>, parent |-> 11, children |-> <<21, 22, 28>>, fields |-> {}],  \* 20
     [type |-> "{", sp |-> <<0, 18>>, ep |-> <<0, 19>>, parent |-> 20, children |-> <<>>, fields |-> {}],  \* 21
     [type |-> "expression_statement", sp |-> <<0, 20>>, ep |-> <<0, 26>>, parent |-> 20, children |-> <<23, 27>>, fields |-> {}],  \* 22
     [type |-> "assignment_expression", sp |-> <<0, 20>>, ep |-> <<0, 25>>, parent |-> 22, children |-> <<24, 25, 26>>, fields |-> {<<"left", 24>>, <<"right", 26>>}],  \* 23
     [type |-> "identifier", sp |-> <<0, 20>>, ep |-> <<0, 21>>, parent |-> 23, children |-> <<>>, fields |-> {}],  \* 24
     [type |-> "=", sp |-> <<0, 22>>, ep |-> <<0, 23>>, parent |-> 23, children |-> <<>>, fields |-> {}],  \* 25
     [type |-> "number_literal", sp |-> <<0, 24>>, ep |-> <<0, 25>>, parent |-> 23, children |-> <<>>, fields |-> {}],  \* 26
     [type |-> ";", sp |-> <<0, 25>>, ep |-> <<0, 26>>, parent |-> 22, children |-> <<>>, fields |-> {}],  \* 27
     [type |-> "}", sp |-> <<0, 27>>, ep |-> <<0, 28>>, parent |-> 20, children |-> <<>>, fields |-> {}],  \* 28
     [type |-> "if_statement", sp |-> <<0, 29>>, ep |-> <<0, 54>>, parent |-> 9, children |-> <<30, 31, 35, 41, 42>>, fields |-> {<<"condition", 31>>, <<"consequence", 35>>, <<"alternative", 42>>}],  \* 29
     [type |-> "if", sp |-> <<0, 29>>, ep |-> <<0, 30>>, parent |-> 29, children |-> <<>>, fields |-> {}],  \* 30
     [type |-> "parenthesized_expression", sp |-> <<0, 31>>, ep |-> <<0, 34>>, parent |-> 29, children |-> <<32, 33, 34>>, fields |-> {}],  \* 31
     [type |-> "(", sp |-> <<0, 31>>, ep |-> <<0, 32>>, parent |-> 31, children |-> <<>>, fields |-> {}],  \* 32
     [type |-> "identifier", sp |-> <<0, 32>>, ep |-> <<0, 33>>, parent |-> 31, children |-> <<>>, fields |-> {}],  \* 33
     [type |-> ")", sp |-> <<0, 33>>, ep |-> <<0, 34>>, parent |-> 31, children |-> <<>>, fields |-> {}],  \* 34
     [type |-> "expression_statement", sp |-> <<0, 35>>, ep |-> <<0, 41>>, parent |-> 29, children |-> <<36, 40>>, fields |-> {}],  \* 35
     [type |-> "assignment_expression", sp |-> <<0, 35>>, ep |-> <<0, 40>>, parent |-> 35, children |-> <<37, 38, 39>>, fields |-> {<<"left", 37>>, <<"right", 39>>}],  \* 36
     [type |-> "identifier", sp |-> <<0, 35>>, ep |-> <<0, 36>>, parent |-> 36, children |-> <<>>, fields |-> {}],  \* 37
     [type |-> "=", sp |-> <<0, 37>>, ep |-> <<0, 38>>, parent |-> 36, children |-> <<>>, fields |-> {}],  \* 38
     [type |-> "number_literal", sp |-> <<0, 39>>, ep |-> <<0, 40>>, parent |-> 36, children |-> <<>>, fields |-> {}],  \* 39
     [type |-> ";", sp |-> <<0, 40>>, ep |-> <<0, 41>>, parent |-> 35, children |-> <<>>, fields |-> {}],  \* 40
     [type |-> "else", sp |-> <<0, 42>>, ep |-> <<0, 43>>, parent |-> 29, children |-> <<>>, fields |-> {}],  \* 41
     [type |-> "compound_statement", sp |-> <<0, 44>>, ep |-> <<0, 54>>, parent |-> 29, children |-> <<43, 44, 50>>, fields |-> {}],  \* 42
     [type |-> "{", sp |-> <<0, 44>>, ep |-> <<0, 45>>, parent |-> 42, children |-> <<>>, fields |-> {}],  \* 43
     [type |-> "expression_statement", sp |-> <<0, 46>>, ep |-> <<0, 52>>, parent |-> 42, children |-> <<45, 49>>, fields |-> {}],  \* 44
     [type |-> "assignment_expression", sp |-> <<0, 46>>, ep |-> <<0, 51>>, parent |-> 44, children |-> <<46, 47, 48>>, fields |-> {<<"left", 46>>, <<"right", 48>>}],  \* 45
     [type |-> "identifier", sp |-> <<0, 46>>, ep |-> <<0, 47>>, parent |-> 45, children |-> <<>>, fields |-> {}],  \* 46
     [type |-> "=", sp |-> <<0, 48>>, ep |-> <<0, 49>>, parent |-> 45, children |-> <<>>, fields |-> {}],  \* 47
     [type |-> "number_literal", sp |-> <<0, 50>>, ep |-> <<0, 51>>, parent |-> 45, children |-> <<>>, fields |-> {}],  \* 48
     [type |-> ";", sp |-> <<0, 51>>, ep |-> <<0, 52>>, parent |-> 44, children |-> <<>>, fields |-> {}],  \* 49
     [type |-> "}", sp |-> <<0, 53>>, ep |-> <<0, 54>>, parent |-> 42, children |-> <<>>, fields |-> {}],  \* 50
     [type |-> "if_statement", sp |-> <<0, 55>>, ep |-> <<0, 65>>, parent |-> 9, children |-> <<52, 53, 57>>, fields |-> {<<"condition", 53>>, <<"consequence", 57>>}],  \* 51
     [type |-> "if", sp |-> <<0, 55>>, ep |-> <<0, 56>>, parent |-> 51, children |-> <<>>, fields |-> {}],  \* 52
     [type |-> "parenthesized_expression", sp |-> <<0, 57>>, ep |-> <<0, 60>>, parent |-> 51, children |-> <<54, 55, 56>>, fields |-> {}],  \* 53
     [type |-> "(", sp |-> <<0, 57>>, ep |-> <<0, 58>>, parent |-> 53, children |-> <<>>, fields |-> {}],  \* 54
     [type |-> "identifier", sp |-> <<0, 58>>, ep |-> <<0, 59>>, parent |-> 53, children |-> <<>>, fields |-> {}],  \* 55
     [type |-> ")", sp |-> <<0, 59>>, ep |-> <<0, 60>>, parent |-> 53, children |-> <<>>, fields |-> {}],  \* 56
     [type |-> "expression_statement", sp |-> <<0, 61>>, ep |-> <<0, 65>>, parent |-> 51, children |-> <<58, 63>>, fields |-> {}],  \* 57
     [type |-> "call_expression", sp |-> <<0, 61>>, ep |-> <<0, 64>>, parent |-> 57, children |-> <<59, 60>>, fields |-> {<<"function", 59>>, <<"arguments", 60>>}],  \* 58
     [type |-> "identifier", sp |-> <<0, 61>>, ep |-> <<0, 62>>, parent |-> 58, children |-> <<>>, fields |-> {}],  \* 59
     [type |-> "argument_list", sp |-> <<0, 62>>, ep |-> <<0, 64>>, parent |-> 58, children |-> <<61, 62>>, fields |-> {}],  \* 60
     [type |-> "(", sp |-> <<0, 62>>, ep |-> <<0, 63>>, parent |-> 60, children |-> <<>>, fields |-> {}],  \* 61
     [type |-> ")", sp |-> <<0, 63>>, ep |-> <<0, 64>>, parent |-> 60, children |-> <<>>, fields |-> {}],  \* 62
     [type |-> ";", sp |-> <<0, 64>>, ep |-> <<0, 65>>, parent |-> 57, children |-> <<>>, fields |-> {}],  \* 63
     [type |-> "}", sp |-> <<0, 66>>, ep |-> <<0, 67>>, parent |-> 9, children |-> <<>>, fields |-> {}]  \* 64
   >>]

\* subscript/field/call targets
\*   0: int main() { a[f(i)] = b.c + 1; g(0); }
ProgVars ==
  [lines |-> <<<<"int", " ", "main", "(", ")", " ", "{", " ", "a", "[", "f", "(", "i", ")", "]", " ", "=", " ", "b", ".", "c", " ", "+", " ", "1", ";", " ", "g", "(", "0", ")", ";", " ", "}">>>>,
   nodes |-> <<
     [type |-> "translation_unit", sp |-> <<0, 0>>, ep |-> <<0, 34>>, parent |-> 0, children |-> <<2>>, fields |-> {}],  \* 1
     [type |-> "function_definition", sp |-> <<0, 0>>, ep |-> <<0, 34>>, parent |-> 1, children |-> <<3, 4, 9>>, fields |-> {<<"type", 3>>, <<"declarator", 4>>, <<"body", 9>>}],  \* 2
     [type |-> "primitive_type", sp |-> <<0, 0>>, ep |-> <<0, 1>>, parent |-> 2, children |-> <<>>, fields |-> {}],  \* 3
     [type |-> "function_declarator", sp |-> <<0, 2>>, ep |-> <<0, 5>>, parent |-> 2, children |-> <<5, 6>>, fields |-> {<<"declarator", 5>>, <<"parameters", 6>>}],  \* 4
     [type |-> "identifier", sp |-> <<0, 2>>, ep |-> <<0, 3>>, parent |-> 4, children |-> <<>>, fields |-> {}],  \* 5
     [type |-> "parameter_list", sp |-> <<0, 3>>, ep |-> <<0, 5>>, parent |-> 4, children |-> <<7, 8>>, fields |-> {}],  \* 6
     [type |-> "(", sp |-> <<0, 3>>, ep |-> <<0, 4>>, parent |-> 6, children |-> <<>>, fields |-> {}],  \* 7
     [type |-> ")", sp |-> <<0, 4>>, ep |-> <<0, 5>>, parent |-> 6, children |-> <<>>, fields |-> {}],  \* 8
     [type |-> "compound_statement", sp |-> <<0, 6>>, ep |-> <<0, 34>>, parent |-> 2, children |-> <<10, 11, 32, 40>>, fields |-> {}],  \* 9
     [type |-> "{", sp |-> <<0, 6>>, ep |-> <<0, 7>>, parent |-> 9, children |-> <<>>, fields |-> {}],  \* 10
     [type |-> "expression_statement", sp |-> <<0, 8>>, ep |-> <<0, 26>>, parent |-> 9, children |-> <<12, 31>>, fields |-> {}],  \* 11
     [type |-> "assignment_expression", sp |-> <<0, 8>>, ep |-> <<0, 25>>, parent |-> 11, children |-> <<13, 23, 24>>, fields |-> {<<"left", 13>>, <<"right", 24>>}],  \* 12
     [type |-> "subscript_expression", sp |-> <<0, 8>>, ep |-> <<0, 15>>, parent |-> 12, children |-> <<14, 15, 16, 22>>, fields |-> {<<"argument", 14>>, <<"index", 16>>}],  \* 13
     [type |-> "identifier", sp |-> <<0, 8>>, ep |-> <<0, 9>>, parent |-> 13, children |-> <<>>, fields |-> {}],  \* 14
     [type |-> "[", sp |-> <<0, 9>>, ep |-> <<0, 10>>, parent |-> 13, children |-> <<>>, fields |-> {}],  \* 15
     [type |-> "call_expression", sp |-> <<0, 10>>, ep |-> <<0, 14>>, parent |-> 13, children |-> <<17, 18>>, fields |-> {<<"function", 17>>, <<"arguments", 18>>}],  \* 16
     [type |-> "identifier", sp |-> <<0, 10>>, ep |-> <<0, 11>>, parent |-> 16, children |-> <<>>, fields |-> {}],  \* 17
     [type |-> "argument_list", sp |-> <<0, 11>>, ep |-> <<0, 14>>, parent |-> 16, children |-> <<19, 20, 21>>, fields |-> {}],  \* 18
     [type |-> "(", sp |-> <<0, 11>>, ep |-> <<0, 12>>, parent |-> 18, children |-> <<>>, fields |-> {}],  \* 19
     [type |-> "identifier", sp |-> <<0, 12>>, ep |-> <<0, 13>>, parent |-> 18, children |-> <<>>, fields |-> {}],  \* 20
     [type |-> ")", sp |-> <<0, 13>>, ep |-> <<0, 14>>, parent |-> 18, children |-> <<>>, fields |-> {}],  \* 21
     [type |-> "]", sp |-> <<0, 14>>, ep |-> <<0, 15>>, parent |-> 13, children |-> <<>>, fields |-> {}],  \* 22
     [type |-> "=", sp |-> <<0, 16>>, ep |-> <<0, 17>>, parent |-> 12, children |-> <<>>, fields |-> {}],  \* 23
     [type |-> "binary_expression", sp |-> <<0, 18>>, ep |-> <<0, 25>>, parent |-> 12, children |-> <<25, 29, 30>>, fields |-> {<<"left", 25>>, <<"right", 30>>}],  \* 24
     [type |-> "field_expression", sp |-> <<0, 18>>, ep |-> <<0, 21>>, parent |-> 24, children |-> <<26, 27, 28>>, fields |-> {<<"argument", 26>>, <<"field", 28>>}],  \* 25
     [type |-> "identifier", sp |-> <<0, 18>>, ep |-> <<0, 19>>, parent |-> 25, children |-> <<>>, fields |-> {}],  \* 26
     [type |-> ".", sp |-> <<0, 19>>, ep |-> <<0, 20>>, parent |-> 25, children |-> <<>>, fields |-> {}],  \* 27
     [type |-> "field_identifier", sp |-> <<0, 20>>, ep |-> <<0, 21>>, parent |-> 25, children |-> <<>>, fields |-> {}],  \* 28
     [type |-> "+", sp |-> <<0, 22>>, ep |-> <<0, 23>>, parent |-> 24, children |-> <<>>, fields |-> {}],  \* 29
     [type |-> "number_literal", sp |-> <<0, 24>>, ep |-> <<0, 25>>, parent |-> 24, children |-> <<>>, fields |-> {}],  \* 30
     [type |-> ";", sp |-> <<0, 25>>, ep |-> <<0, 26>>, parent |-> 11, children |-> <<>>, fields |-> {}],  \* 31
     [type |-> "expression_statement", sp |-> <<0, 27>>, ep |-> <<0, 32>>, parent |-> 9, children |-> <<33, 39>>, fields |-> {}],  \* 32
     [type |-> "call_expression", sp |-> <<0, 27>>, ep |-> <<0, 31>>, parent |-> 32, children |-> <<34, 35>>, fields |-> {<<"function", 34>>, <<"arguments", 35>>}],  \* 33
     [type |-> "identifier", sp |-> <<0, 27>>, ep |-> <<0, 28>>, parent |-> 33, children |-> <<>>, fields |-> {}],  \* 34
     [type |-> "argument_list", sp |-> <<0, 28>>, ep |-> <<0, 31>>, parent |-> 33, children |-> <<36, 37, 38>>, fields |-> {}],  \* 35
     [type |-> "(", sp |-> <<0, 28>>, ep |-> <<0, 29>>, parent |-> 35, children |-> <<>>, fields |-> {}],  \* 36
     [type |-> "number_literal", sp |-> <<0, 29>>, ep |-> <<0, 30>>, parent |-> 35, children |-> <<>>, fields |-> {}],  \* 37
     [type |-> ")", sp |-> <<0, 30>>, ep |-> <<0, 31>>, parent |-> 35, children |-> <<>>, fields |-> {}],  \* 38
     [type |-> ";", sp |-> <<0, 31>>, ep |-> <<0, 32>>, parent |-> 32, children |-> <<>>, fields |-> {}],  \* 39
     [type |-> "}", sp |-> <<0, 33>>, ep |-> <<0, 34>>, parent |-> 9, children |-> <<>>, fields |-> {}]  \* 40
   >>]

\* while with an unbraced body, for with a block, do-while
\*   0: int main() { while (x) y = 1; for (i = 0; i < n; i++) { s = i; } do { x--; } while (x); }
ProgLoops ==
  [lines |-> <<<<"int", " ", "main", "(", ")", " ", "{", " ", "while", " ", "(", "x", ")", " ", "y", " ", "=", " ", "1", ";", " ", "for", " ", "(", "i", " ", "=", " ", "0", ";", " ", "i", " ", "<", " ", "n", ";", " ", "i", "++", ")", " ", "{", " ", "s", " ", "=", " ", "i", ";", " ", "}", " ", "do", " ", "{", " ", "x", "--", ";", " ", "}", " ", "while", " ", "(", "x", ")", ";", " ", "}">>>>,
   nodes |-> <<
     [type |-> "translation_unit", sp |-> <<0, 0>>, ep |-> <<0, 71>>, parent |-> 0, children |-> <<2>>, fields |-> {}],  \* 1
     [type |-> "function_definition", sp |-> <<0, 0>>, ep |-> <<0, 71>>, parent |-> 1, children |-> <<3, 4, 9>>, fields |-> {<<"type", 3>>, <<"declarator", 4>>, <<"body", 9>>}],  \* 2
     [type |-> "primitive_type", sp |-> <<0, 0>>, ep |-> <<0, 1>>, parent |-> 2, children |-> <<>>, fields |-> {}],  \* 3
     [type |-> "function_declarator", sp |-> <<0, 2>>, ep |-> <<0, 5>>, parent |-> 2, children |-> <<5, 6>>, fields |-> {<<"declarator", 5>>, <<"parameters", 6>>}],  \* 4
     [type |-> "identifier", sp |-> <<0, 2>>, ep |-> <<0, 3>>, parent |-> 4, children |-> <<>>, fields |-> {}],  \* 5
     [type |-> "parameter_list", sp |-> <<0, 3>>, ep |-> <<0, 5>>, parent |-> 4, children |-> <<7, 8>>, fields |-> {}],  \* 6
     [type |-> "(", sp |-> <<0, 3>>, ep |-> <<0, 4>>, parent |-> 6, children |-> <<>>, fields |-> {}],  \* 7
     [type |-> ")", sp |-> <<0, 4>>, ep |-> <<0, 5>>, parent |-> 6, children |-> <<>>, fields |-> {}],  \* 8
     [type |-> "compound_statement", sp |-> <<0, 6>>, ep |-> <<0, 71>>, parent |-> 2, children |-> <<10, 11, 23, 49, 65>>, fields |-> {}],  \* 9
     [type |-> "{", sp |-> <<0, 6>>, ep |-> <<0, 7>>, parent |-> 9, children |-> <<>>, fields |-> {}],  \* 10
     [type |-> "while_statement", sp |-> <<0, 8>>, ep |-> <<0, 20>>, parent |-> 9, children |-> <<12, 13, 17>>, fields |-> {<<"condition", 13>>, <<"body", 17>>}],  \* 11
     [type |-> "while", sp |-> <<0, 8>>, ep |-> <<0, 9>>, parent |-> 11, children |-> <<>>, fields |-> {}],  \* 12
     [type |-> "parenthesized_expression", sp |-> <<0, 10>>, ep |-> <<0, 13>>, parent |-> 11, children |-> <<14, 15, 16>>, fields |-> {}],  \* 13
     [type |-> "(", sp |-> <<0, 10>>, ep |-> <<0, 11>>, parent |-> 13, children |-> <<>>, fields |-> {}],  \* 14
     [type |-> "identifier", sp |-> <<0, 11>>, ep |-> <<0, 12>>, parent |-> 13, children |-> <<>>, fields |-> {}],  \* 15
     [type |-> ")", sp |-> <<0, 12>>, ep |-> <<0, 13>>, parent |-> 13, children |-> <<>>, fields |-> {}],  \* 16
     [type |-> "expression_statement", sp |-> <<0, 14>>, ep |-> <<0, 20>>, parent |-> 11, children |-> <<18, 22>>, fields |-> {}],  \* 17
     [type |-> "assignment_expression", sp |-> <<0, 14>>, ep |-> <<0, 19>>, parent |-> 17, children |-> <<19, 20, 21>>, fields |-> {<<"left", 19>>, <<"right", 21>>}],  \* 18
     [type |-> "identifier", sp |-> <<0, 14>>, ep |-> <<0, 15>>, parent |-> 18, children |-> <<>>, fields |-> {}],  \* 19
     [type |-> "=", sp |-> <<0, 16>>, ep |-> <<0, 17>>, parent |-> 18, children |-> <<>>, fields |-> {}],  \* 20
     [type |-> "number_literal", sp |-> <<0, 18>>, ep |-> <<0, 19>>, parent |-> 18, children |-> <<>>, fields |-> {}],  \* 21
     [type |-> ";", sp |-> <<0, 19>>, ep |-> <<0, 20>>, parent |-> 17, children |-> <<>>, fields |-> {}],  \* 22
     [type |-> "for_statement", sp |-> <<0, 21>>, ep |-> <<0, 52>>, parent |-> 9, children |-> <<24, 25, 26, 30, 31, 35, 36, 39, 40>>, fields |-> {<<"initializer", 26>>, <<"condition", 31>>, <<"update", 36>>, <<"body", 40>>}],  \* 23
     [type |-> "for", sp |-> <<0, 21>>, ep |-> <<0, 22>>, parent |-> 23, children |-> <<>>, fields |-> {}],  \* 24
     [type |-> "(", sp |-> <<0, 23>>, ep |-> <<0, 24>>, parent |-> 23, children |-> <<>>, fields |-> {}],  \* 25
     [type |-> "assignment_expression", sp |-> <<0, 24>>, ep |-> <<0, 29>>, parent |-> 23, children |-> <<27, 28, 29>>, fields |-> {<<"left", 27>>, <<"right", 29>>}],  \* 26
     [type |-> "identifier", sp |-> <<0, 24>>, ep |-> <<0, 25>>, parent |-> 26, children |-> <<>>, fields |-> {}],  \* 27
     [type |-> "=", sp |-> <<0, 26>>, ep |-> <<0, 27>>, parent |-> 26, children |-> <<>>, fields |-> {}],  \* 28
     [type |-> "number_literal", sp |-> <<0, 28>>, ep |-> <<0, 29>>, parent |-> 26, children |-> <<>>, fields |-> {}],  \* 29
     [type |-> ";", sp |-> <<0, 29>>, ep |-> <<0, 30>>, parent |-> 23, children |-> <<>>, fields |-> {}],  \* 30
     [type |-> "binary_expression", sp |-> <<0, 31>>, ep |-> <<0, 36>>, parent |-> 23, children |-> <<32, 33, 34>>, fields |-> {<<"left", 32>>, <<"right", 34>>}],  \* 31
     [type |-> "identifier", sp |-> <<0, 31>>, ep |-> <<0, 32>>, parent |-> 31, children |-> <<>>, fields |-> {}],  \* 32
     [type |-> "<", sp |-> <<0, 33>>, ep |-> <<0, 34>>, parent |-> 31, children |-> <<>>, fields |-> {}],  \* 33
     [type |-> "identifier", sp |-> <<0, 35>>, ep |-> <<0, 36>>, parent |-> 31, children |-> <<>>, fields |-> {}],  \* 34
     [type |-> ";", sp |-> <<0, 36>>, ep |-> <<0, 37>>, parent |-> 23, children |-> <<>>, fields |-> {}],  \* 35
     [type |-> "update_expression", sp |-> <<0, 38>>, ep |-> <<0, 40>>, parent |-> 23, children |-> <<37, 38>>, fields |-> {<<"argument", 37>>}],  \* 36
     [type |-> "identifier", sp |-> <<0, 38>>, ep |-> <<0, 39>>, parent |-> 36, children |-> <<>>, fields |-> {}],  \* 37
     [type |-> "++", sp |-> <<0, 39>>, ep |-> <<0, 40>>, parent |-> 36, children |-> <<>>, fields |-> {}],  \* 38
     [type |-> ")", sp |-> <<0, 40>>, ep |-> <<0, 41>>, parent |-> 23, children |-> <<>>, fields |-> {}],  \* 39
     [type |-> "compound_statement", sp |-> <<0, 42>>, ep |-> <<0, 52>>, parent |-> 23, children |-> <<41, 42, 48>>, fields |-> {}],  \* 40
     [type |-> "{", sp |-> <<0, 42>>, ep |-> <<0, 43>>, parent |-> 40, children |-> <<>>, fields |-> {}],  \* 41
     [type |-> "expression_statement", sp |-> <<0, 44>>, ep |-> <<0, 50>>, parent |-> 40, children |-> <<43, 47>>, fields |-> {}],  \* 42
     [type |-> "assignment_expression", sp |-> <<0, 44>>, ep |-> <<0, 49>>, parent |-> 42, children |-> <<44, 45, 46>>, fields |-> {<<"left", 44>>, <<"right", 46>>}],  \* 43
     [type |-> "identifier", sp |-> <<0, 44>>, ep |-> <<0, 45>>, parent |-> 43, children |-> <<>>, fields |-> {}],  \* 44
     [type |-> "=", sp |-> <<0, 46>>, ep |-> <<0, 47>>, parent |-> 43, children |-> <<>>, fields |-> {}],  \* 45
     [type |-> "identifier", sp |-> <<0, 48>>, ep |-> <<0, 49>>, parent |-> 43, children |-> <<>>, fields |-> {}],  \* 46
     [type |-> ";", sp |-> <<0, 49>>, ep |-> <<0, 50>>, parent |-> 42, children |-> <<>>, fields |-> {}],  \* 47
     [type |-> "}", sp |-> <<0, 51>>, ep |-> <<0, 52>>, parent |-> 40, children |-> <<>>, fields |-> {}],  \* 48
     [type |-> "do_statement", sp |-> <<0, 53>>, ep |-> <<0, 69>>, parent |-> 9, children |-> <<50, 51, 59, 60, 64>>, fields |-> {<<"body", 51>>, <<"condition", 60>>}],  \* 49
     [type |-> "do", sp |-> <<0, 53>>, ep |-> <<0, 54>>, parent |-> 49, children |-> <<>>, fields |-> {}],  \* 50
     [type |-> "compound_statement", sp |-> <<0, 55>>, ep |-> <<0, 62>>, parent |-> 49, children |-> <<52, 53, 58>>, fields |-> {}],  \* 51
     [type |-> "{", sp |-> <<0, 55>>, ep |-> <<0, 56>>, parent |-> 51, children |-> <<>>, fields |-> {}],  \* 52
     [type |-> "expression_statement", sp |-> <<0, 57>>, ep |-> <<0, 60>>, parent |-> 51, children |-> <<54, 57>>, fields |-> {}],  \* 53
     [type |-> "update_expression", sp |-> <<0, 57>>, ep |-> <<0, 59>>, parent |-> 53, children |-> <<55, 56>>, fields |-> {<<"argument", 55>>}],  \* 54
     [type |-> "identifier", sp |-> <<0, 57>>, ep |-> <<0, 58>>, parent |-> 54, children |-> <<>>, fields |-> {}],  \* 55
     [type |-> "--", sp |-> <<0, 58>>, ep |-> <<0, 59>>, parent |-> 54, children |-> <<>>, fields |-> {}],  \* 56
     [type |-> ";", sp |-> <<0, 59>>, ep |-> <<0, 60>>, parent |-> 53, children |-> <<>>, fields |-> {}],  \* 57
     [type |-> "}", sp |-> <<0, 61>>, ep |-> <<0, 62>>, parent |-> 51, children |-> <<>>, fields |-> {}],  \* 58
     [type |-> "while", sp |-> <<0, 63>>, ep |-> <<0, 64>>, parent |-> 49, children |-> <<>>, fields |-> {}],  \* 59
     [type |-> "parenthesized_expression", sp |-> <<0, 65>>, ep |-> <<0, 68>>, parent |-> 49, children |-> <<61, 62, 63>>, fields |-> {}],  \* 60
     [type |-> "(", sp |-> <<0, 65>>, ep |-> <<0, 66>>, parent |-> 60, children |-> <<>>, fields |-> {}],  \* 61
     [type |-> "identifier", sp |-> <<0, 66>>, ep |-> <<0, 67>>, parent |-> 60, children |-> <<>>, fields |-> {}],  \* 62
     [type |-> ")", sp |-> <<0, 67>>, ep |-> <<0, 68>>, parent |-> 60, children |-> <<>>, fields |-> {}],  \* 63
     [type |-> ";", sp |-> <<0, 68>>, ep |-> <<0, 69>>, parent |-> 49, children |-> <<>>, fields |-> {}],  \* 64
     [type |-> "}", sp |-> <<0, 70>>, ep |-> <<0, 71>>, parent |-> 9, children |-> <<>>, fields |-> {}]  \* 65
   >>]

\* crafted tree: the children of the block are listed out of source order
\*   0: int main() { u = 1; v = 2; }
ProgCrafted ==
  [lines |-> <<<<"int", " ", "main", "(", ")", " ", "{", " ", "u", " ", "=", " ", "1", ";", " ", "v", " ", "=", " ", "2", ";", " ", "}">>>>,
   nodes |-> <<
     [type |-> "translation_unit", sp |-> <<0, 0>>, ep |-> <<0, 23>>, parent |-> 0, children |-> <<2>>, fields |-> {}],  \* 1
     [type |-> "function_definition", sp |-> <<0, 0>>, ep |-> <<0, 23>>, parent |-> 1, children |-> <<3, 4, 9>>, fields |-> {<<"type", 3>>, <<"declarator", 4>>, <<"body", 9>>}],  \* 2
     [type |-> "primitive_type", sp |-> <<0, 0>>, ep |-> <<0, 1>>, parent |-> 2, children |-> <<>>, fields |-> {}],  \* 3
     [type |-> "function_declarator", sp |-> <<0, 2>>, ep |-> <<0, 5>>, parent |-> 2, children |-> <<5, 6>>, fields |-> {<<"declarator", 5>>, <<"parameters", 6>>}],  \* 4
     [type |-> "identifier", sp |-> <<0, 2>>, ep |-> <<0, 3>>, parent |-> 4, children |-> <<>>, fields |-> {}],  \* 5
     [type |-> "parameter_list", sp |-> <<0, 3>>, ep |-> <<0, 5>>, parent |-> 4, children |-> <<7, 8>>, fields |-> {}],  \* 6
     [type |-> "(", sp |-> <<0, 3>>, ep |-> <<0, 4>>, parent |-> 6, children |-> <<>>, fields |-> {}],  \* 7
     [type |-> ")", sp |-> <<0, 4>>, ep |-> <<0, 5>>, parent |-> 6, children |-> <<>>, fields |-> {}],  \* 8
     [type |-> "compound_statement", sp |-> <<0, 6>>, ep |-> <<0, 23>>, parent |-> 2, children |-> <<10, 11, 17, 23>>, fields |-> {}],  \* 9
     [type |-> "{", sp |-> <<0, 6>>, ep |-> <<0, 7>>, parent |-> 9, children |-> <<>>, fields |-> {}],  \* 10
     [type |-> "expression_statement", sp |-> <<0, 15>>, ep |-> <<0, 21>>, parent |-> 9, children |-> <<12, 16>>, fields |-> {}],  \* 11
     [type |-> "assignment_expression", sp |-> <<0, 15>>, ep |-> <<0, 20>>, parent |-> 11, children |-> <<13, 14, 15>>, fields |-> {<<"left", 13>>, <<"right", 15>>}],  \* 12
     [type |-> "identifier", sp |-> <<0, 15>>, ep |-> <<0, 16>>, parent |-> 12, children |-> <<>>, fields |-> {}],  \* 13
     [type |-> "=", sp |-> <<0, 17>>, ep |-> <<0, 18>>, parent |-> 12, children |-> <<>>, fields |-> {}],  \* 14
     [type |-> "number_literal", sp |-> <<0, 19>>, ep |-> <<0, 20>>, parent |-> 12, children |-> <<>>, fields |-> {}],  \* 15
     [type |-> ";", sp |-> <<0, 20>>, ep |-> <<0, 21>>, parent |-> 11, children |-> <<>>, fields |-> {}],  \* 16
     [type |-> "expression_statement", sp |-> <<0, 8>>, ep |-> <<0, 14>>, parent |-> 9, children |-> <<18, 22>>, fields |-> {}],  \* 17
     [type |-> "assignment_expression", sp |-> <<0, 8>>, ep |-> <<0, 13>>, parent |-> 17, children |-> <<19, 20, 21>>, fields |-> {<<"left", 19>>, <<"right", 21>>}],  \* 18
     [type |-> "identifier", sp |-> <<0, 8>>, ep |-> <<0, 9>>, parent |-> 18, children |-> <<>>, fields |-> {}],  \* 19
     [type |-> "=", sp |-> <<0, 10>>, ep |-> <<0, 11>>, parent |-> 18, children |-> <<>>, fields |-> {}],  \* 20
     [type |-> "number_literal", sp |-> <<0, 12>>, ep |-> <<0, 13>>, parent |-> 18, children |-> <<>>, fields |-> {}],  \* 21
     [type |-> ";", sp |-> <<0, 13>>, ep |-> <<0, 14>>, parent |-> 17, children |-> <<>>, fields |-> {}],  \* 22
     [type |-> "}", sp |-> <<0, 22>>, ep |-> <<0, 23>>, parent |-> 9, children |-> <<>>, fields |-> {}]  \* 23
   >>]

----------------------------------------------------------------------------
(* The parsed program: code_ast.ast(source_code, lang = "c") *)

ProgramNames == {"ProgError", "ProgIf", "ProgVars", "ProgLoops", "ProgCrafted"}

Program(name) ==
  CASE name = "ProgError" -> ProgError
    [] name = "ProgIf" -> ProgIf
    [] name = "ProgVars" -> ProgVars
    [] name = "ProgLoops" -> ProgLoops
    [] name = "ProgCrafted" -> ProgCrafted

Nodes(p) == Program(p).nodes
NodeIds(p) == 1..Len(Nodes(p))
Type(p, n) == Nodes(p)[n].type
StartPoint(p, n) == Nodes(p)[n].sp
EndPoint(p, n) == Nodes(p)[n].ep
Children(p, n) == Nodes(p)[n].children
Parent(p, n) == Nodes(p)[n].parent

\* node.child_by_field_name(name); 0 stands for None
child_by_field_name(p, n, name) ==
  IF \E f \in Nodes(p)[n].fields : f[1] = name
  THEN (CHOOSE f \in Nodes(p)[n].fields : f[1] = name)[2]
  ELSE 0

LastChild(p, n) == Children(p, n)[Len(Children(p, n))]

\* cursor.goto_next_sibling(): the sibling's id, 0 when there is none
NextSibling(p, n) ==
  IF Parent(p, n) = 0 THEN 0
  ELSE LET cs == Children(p, Parent(p, n))
           i == CHOOSE k \in 1..Len(cs) : cs[k] = n
       IN IF i < Len(cs) THEN cs[i + 1] ELSE 0

\* is n in the subtree rooted at a
RECURSIVE InSubtree(_, _, _)
InSubtree(p, n, a) ==
  IF n = a THEN TRUE
  ELSE IF n = 0 \/ Parent(p, n) = 0 THEN FALSE
  ELSE InSubtree(p, Parent(p, n), a)

\* ast.match(node): the source text the node spans
MatchSpan(lines, sp, ep) ==
  IF sp[1] = ep[1] THEN Slice(lines[sp[1] + 1], sp[2], ep[2])
  ELSE Join(<<NL>>, <<SliceFrom(lines[sp[1] + 1], sp[2])>>
                     \o SubSeq(lines, sp[1] + 2, ep[1])
                     \o <<Slice(lines[ep[1] + 1], 0, ep[2])>>)

match(p, n) == MatchSpan(Program(p).lines, StartPoint(p, n), EndPoint(p, n))

----------------------------------------------------------------------------
(* VariableVisitor *)

Literals == {"compound_literal_expression", "number_literal", "string_literal", "true",
             "false", "null", "concatenated_string", "char_literal"}

\* VariableVisitor.walk(node): the nodes appended to vars, in order (node 0 is None)
RECURSIVE VarWalk(_, _)
RECURSIVE VarWalkAll(_, _)
VarWalkAll(p, kids) ==
  IF kids = <<>> THEN <<>> ELSE VarWalk(p, Head(kids)) \o VarWalkAll(p, Tail(kids))

VarWalk(p, n) ==
  IF n = 0 THEN <<>>
  ELSE LET t == Type(p, n) IN
    CASE t = "identifier" -> <<n>>
      [] t = "call_expression" -> VarWalk(p, child_by_field_name(p, n, "arguments"))
      [] t = "subscript_expression" -> VarWalk(p, child_by_field_name(p, n, "index")) \o <<n>>
      [] t = "cast_expression" -> VarWalk(p, LastChild(p, n))
      [] t = "pointer_expression" -> <<>>
      [] t = "sizeof_expression" -> VarWalk(p, child_by_field_name(p, n, "value"))
      [] t = "field_expression" -> <<n>>
      [] t \in Literals -> <<>>
      [] OTHER -> VarWalkAll(p, Children(p, n))

\* set(self.ast.match(n) for n in visitor.vars)
VarTexts(p, n) == {match(p, VarWalk(p, n)[i]) : i \in 1..Len(VarWalk(p, n))}

\* the orders in which a set can be iterated
Orders(S) ==
  {s \in [1..Cardinality(S) -> S] : \A i, j \in 1..Cardinality(S) : i # j => s[i] # s[j]}

----------------------------------------------------------------------------
(* Instrumenter *)

ERROR_FUNCS == {<<"reach_error">>, <<"__VERIFIER_error">>}

\* html.escape(s), per symbol
HtmlEscapeSym(c) ==
  CASE c = "&" -> "&amp;"
    [] c = "<" -> "&lt;"
    [] c = ">" -> "&gt;"
    [] c = "\"" -> "&quot;"
    [] c = "'" -> "&#x27;"
    [] OTHER -> c
html_escape(s) == [i \in 1..Len(s) |-> HtmlEscapeSym(s[i])]

\* The dictionary handed to printf_json.  control = "" and has_assumption = FALSE
\* stand for an absent key.
Observation(sourcecode, startline, endline, control, vs, scp) ==
  [sourcecode |-> sourcecode, startline |-> 1 + startline, endline |-> 1 + endline,
   control |-> control, has_assumption |-> Len(vs) > 0,
   assumption |-> IF Len(vs) > 0 THEN vs ELSE <<>>,
   scope |-> IF Len(vs) > 0 THEN scp ELSE <<>>]

NoObservation ==
  [sourcecode |-> <<>>, startline |-> 0, endline |-> 0, control |-> "",
   has_assumption |-> FALSE, assumption |-> <<>>, scope |-> <<>>]

\* Annotations: kind "fprintf" is the statement
\*   \nfprintf(stderr, "<json>\n", <args>);\n
\* whose format string holds one "(%d)" per entry of json.assumption; the other
\* kinds are the literal texts "{\n", "\n}" and "".  `by` is the visited node that
\* produced the patch (history only).
Patch(pos, kind, json, args, by) ==
  [pos |-> pos, text |-> [kind |-> kind, json |-> json, args |-> args], by |-> by]

\* Instrumenter.instrument(text, pos): pos or the tracked cursor
instrument(kind, pos, cursor, by) ==
  Patch(IF pos = <<>> THEN cursor ELSE pos, kind, NoObservation, <<>>, by)

\* mutant: the captured variables are passed in another order than the clauses
printf_json_reversed(object, track_args, pos, by) ==
  Patch(pos, "fprintf", [object EXCEPT !.sourcecode = html_escape(@)],
        [k \in 1..Len(track_args) |-> track_args[Len(track_args) + 1 - k]], by)

\* Instrumenter.printf_json / printf
printf_json(object, track_args, pos, by) ==
  Patch(pos, "fprintf", [object EXCEPT !.sourcecode = html_escape(@)], track_args, by)

\* ";".join([f"{var} == (%d)" for var in written_vars] + [""])
Clauses(vs) ==
  Flatten([k \in 1..Len(vs) |-> vs[k] \o <<" ", "=", "=", " ", "(", "%", "d", ")", ";">>])

\* json.dumps(object): the keys in insertion order
JsonText(json) ==
  <<"{", "\"", "sourcecode", "\"", ":", " ", "\"">> \o json.sourcecode
    \o <<"\"", ",", " ", "\"", "startline", "\"", ":", " ", ToString(json.startline)>>
    \o <<",", " ", "\"", "endline", "\"", ":", " ", ToString(json.endline)>>
    \o (IF json.control # ""
        THEN <<",", " ", "\"", "control", "\"", ":", " ", "\"", json.control, "\"">>
        ELSE <<>>)
    \o (IF json.has_assumption
        THEN <<",", " ", "\"", "assumption", "\"", ":", " ", "\"">> \o Clauses(json.assumption)
               \o <<"\"", ",", " ", "\"", "assumption.scope", "\"", ":", " ", "\"">>
               \o Join(<<".">>, json.scope) \o <<"\"">>
        ELSE <<>>)
    \o <<"}">>

\* text.replace("\n", "\\n").replace("\"", '\\"')
PrintfEscape(s) ==
  Flatten([i \in 1..Len(s) |-> IF s[i] = NL THEN <<"\\", "n">>
                               ELSE IF s[i] = "\"" THEN <<"\\", "\"">> ELSE <<s[i]>>])

\* the format string of the fprintf statement of an annotation: "{text}\n"
FormatString(t) == PrintfEscape(JsonText(t.json)) \o <<"\\", "n">>

\* the extra arguments of the call: "," + ",".join(track_args)
TrackArgs(t) == Flatten([k \in 1..Len(t.args) |-> <<",">> \o t.args[k]])

EmptyText == [kind |-> "", json |-> NoObservation, args |-> <<>>]

\* A handler's effect: the patches it appends, the scope it leaves, whether the
\* visitor goes on into the children (visit_* returning anything but False),
\* and ok = FALSE when an assertion of the handler fails.
Effect(patches, scp, descend, ok) ==
  [patches |-> patches, scope |-> scp, descend |-> descend, ok |-> ok]

\* mutant: the body of an error-marker function is visited like any other
visit_function_definition_noskip(p, n, scp) ==
  LET declarator == child_by_field_name(p, n, "declarator")
      func_name == child_by_field_name(p, declarator, "declarator")
  IN IF Type(p, func_name) # "identifier" THEN Effect(<<>>, scp, TRUE, FALSE)
     ELSE Effect(<<>>, Append(scp, match(p, func_name)), TRUE, TRUE)

visit_function_definition(p, n, scp) ==
  LET declarator == child_by_field_name(p, n, "declarator")
      func_name == child_by_field_name(p, declarator, "declarator")
  IN IF Type(p, func_name) # "identifier" THEN Effect(<<>>, scp, TRUE, FALSE)
     ELSE Effect(<<>>, Append(scp, match(p, func_name)),
                 match(p, func_name) \notin ERROR_FUNCS, TRUE)

leave_function_definition(p, n, scp) ==
  Effect(<<>>, SubSeq(scp, 1, Len(scp) - 1), TRUE, TRUE)

_handle_error(p, n) ==
  printf_json(Observation(match(p, n), StartPoint(p, n)[1], EndPoint(p, n)[1], "", <<>>, <<>>),
              <<>>, StartPoint(p, n), n)

\* mutant: the error-marker observation is placed at the end of the statement
visit_expression_statement_at_end(p, n, scp) ==
  LET statement == Children(p, n)[1]
      is_error == /\ Type(p, statement) = "call_expression"
                  /\ match(p, child_by_field_name(p, statement, "function")) \in ERROR_FUNCS
  IN Effect(IF is_error THEN <<[_handle_error(p, n) EXCEPT !.pos = EndPoint(p, n)]>> ELSE <<>>,
            scp, TRUE, TRUE)

visit_expression_statement(p, n, scp) ==
  LET statement == Children(p, n)[1]
      is_error == /\ Type(p, statement) = "call_expression"
                  /\ match(p, child_by_field_name(p, statement, "function")) \in ERROR_FUNCS
  IN Effect(IF is_error THEN <<_handle_error(p, n)>> ELSE <<>>, scp, TRUE, TRUE)

\* mutant: the observation is emitted only for a non-empty target set
leave_expression_statement_guarded(p, n, scp, written_vars) ==
  Effect(IF Len(written_vars) > 0
         THEN <<printf_json(Observation(match(p, n), StartPoint(p, n)[1], EndPoint(p, n)[1], "",
                                        written_vars, scp),
                            written_vars, EndPoint(p, n), n)>>
         ELSE <<>>,
         scp, TRUE, TRUE)

\* written_vars: the target set in its iteration order
leave_expression_statement(p, n, scp, written_vars) ==
  Effect(<<printf_json(Observation(match(p, n), StartPoint(p, n)[1], EndPoint(p, n)[1], "",
                                   written_vars, scp),
                       written_vars, EndPoint(p, n), n)>>,
         scp, TRUE, TRUE)

_write_condition(condition, true_branch, changed_vars, pos, startline, endline, scp, by) ==
  LET sl == IF startline = -1 THEN pos[1] ELSE startline
      el == IF endline = -1 THEN sl ELSE endline
      source == IF true_branch THEN <<"[">> \o condition \o <<"]">>
                ELSE <<"[", "!", "(">> \o condition \o <<")", "]">>
  IN printf_json(Observation(source, sl, el,
                             IF true_branch THEN "condition-true" ELSE "condition-false",
                             changed_vars, scp),
                 changed_vars, pos, by)

\* reads: the condition's target set in its iteration order
_write_condition_node(p, condition_node, consequence_node, true_branch, skip, reads, scp, by) ==
  _write_condition(match(p, condition_node), true_branch, reads,
                   IF skip THEN EndPoint(p, consequence_node)
                   ELSE StartPoint(p, consequence_node),
                   StartPoint(p, condition_node)[1], EndPoint(p, condition_node)[1], scp, by)

\* the part of visit_if_statement for one branch (0: the branch is absent)
IfBranch(p, n, branch, true_branch, reads, scp) ==
  IF branch = 0 THEN <<>>
  ELSE IF Type(p, branch) # "compound_statement"
       THEN <<instrument("{\n", StartPoint(p, branch), <<>>, n),
              _write_condition_node(p, child_by_field_name(p, n, "condition"), branch,
                                    true_branch, FALSE, reads, scp, n)>>
       ELSE <<_write_condition_node(p, child_by_field_name(p, n, "condition"),
                                    Children(p, branch)[2], true_branch, FALSE, reads, scp, n)>>

\* mutant: a condition-false observation is emitted at the branch body even
\* without an else branch
visit_if_statement_symmetric(p, n, scp, reads) ==
  LET consequence == child_by_field_name(p, n, "consequence")
      alternative == child_by_field_name(p, n, "alternative")
  IN Effect(IfBranch(p, n, consequence, TRUE, reads, scp)
              \o IfBranch(p, n, IF alternative = 0 THEN consequence ELSE alternative,
                          FALSE, reads, scp),
            scp, TRUE, TRUE)

visit_if_statement(p, n, scp, reads) ==
  Effect(IfBranch(p, n, child_by_field_name(p, n, "consequence"), TRUE, reads, scp)
           \o IfBranch(p, n, child_by_field_name(p, n, "alternative"), FALSE, reads, scp),
         scp, TRUE, TRUE)

CloseBrace(p, n, branch) ==
  IF branch # 0 /\ Type(p, branch) # "compound_statement"
  THEN <<instrument("\n}", EndPoint(p, branch), <<>>, n)>>
  ELSE <<>>

leave_if_statement(p, n, scp) ==
  Effect(CloseBrace(p, n, child_by_field_name(p, n, "consequence"))
           \o CloseBrace(p, n, child_by_field_name(p, n, "alternative")),
         scp, TRUE, TRUE)

\* visit_for_statement, visit_while_statement (consequence = node.children[-1]) and
\* visit_do_statement (consequence = the "body" field)
VisitLoop(p, n, consequence, reads, scp) ==
  Effect((IF consequence # 0 /\ Type(p, consequence) # "compound_statement"
          THEN <<instrument("{\n", EndPoint(p, consequence), <<>>, n)>> ELSE <<>>)
         \o <<_write_condition_node(p, child_by_field_name(p, n, "condition"),
                                    IF consequence # 0 /\ Type(p, consequence) = "compound_statement"
                                    THEN Children(p, consequence)[2] ELSE consequence,
                                    TRUE, FALSE, reads, scp, n)>>,
         scp, TRUE, TRUE)

\* leave_for_statement, leave_while_statement, leave_do_statement
LeaveLoop(p, n, consequence, reads, scp) ==
  Effect(CloseBrace(p, n, consequence)
         \o <<_write_condition_node(p, child_by_field_name(p, n, "condition"), consequence,
                                    FALSE, TRUE, reads, scp, n)>>,
         scp, TRUE, TRUE)

LoopBody(p, n) ==
  IF Type(p, n) = "do_statement" THEN child_by_field_name(p, n, "body") ELSE LastChild(p, n)

LoopTypes == {"for_statement", "while_statement", "do_statement"}

\* the node whose variable targets the handlers of n collect (0: none)
TargetRoot(p, n, ph) ==
  CASE Type(p, n) = "expression_statement" /\ ph = "leave" -> n
    [] Type(p, n) = "if_statement" /\ ph = "visit" -> child_by_field_name(p, n, "condition")
    [] Type(p, n) \in LoopTypes -> child_by_field_name(p, n, "condition")
    [] OTHER -> 0

\* ASTVisitor.on_visit of the Instrumenter: getattr(self, "visit_%s" % node.type, self.visit)
InstrumenterOnVisit(p, n, scp, vs) ==
  CASE Type(p, n) = "function_definition" -> visit_function_definition(p, n, scp)
    [] Type(p, n) = "expression_statement" -> visit_expression_statement(p, n, scp)
    [] Type(p, n) = "if_statement" -> visit_if_statement(p, n, scp, vs)
    [] Type(p, n) \in LoopTypes -> VisitLoop(p, n, LoopBody(p, n), vs, scp)
    [] OTHER -> Effect(<<>>, scp, TRUE, TRUE)

\* ASTVisitor.on_leave of the Instrumenter
InstrumenterOnLeave(p, n, scp, vs) ==
  CASE Type(p, n) = "function_definition" -> leave_function_definition(p, n, scp)
    [] Type(p, n) = "expression_statement" -> leave_expression_statement(p, n, scp, vs)
    [] Type(p, n) = "if_statement" -> leave_if_statement(p, n, scp)
    [] Type(p, n) \in LoopTypes -> LeaveLoop(p, n, LoopBody(p, n), vs, scp)
    [] OTHER -> Effect(<<>>, scp, TRUE, TRUE)

----------------------------------------------------------------------------
(* The traversal: ASTVisitor.walk driving ResumingVisitorComposition          *)
(* (LocationAnalysis, Instrumenter).  Visitor 1 is LocationAnalysis, which    *)
(* never asks to skip; visitor 2 is the Instrumenter.                         *)

\* mutant: the order assertion of LocationAnalysis.on_visit is dropped
no_order_assertion(cursor, start_point) == TRUE

\* LocationAnalysis.on_visit: assert (line, line_offset) <= start_point
traversal_order_ok(cursor, start_point) == PointLeq(cursor, start_point)

\* the Instrumenter's handler result at node n, or no effect while it is paused
VisitEffect(ord) ==
  IF active[2] THEN InstrumenterOnVisit(prog, node, scope, ord)
  ELSE Effect(<<>>, scope, TRUE, TRUE)

Resumes == ~active[2] /\ resume_on[2] = node

\* mutant: a visitor that skipped a subtree is resumed without its on_leave
LeaveEffect_active_only(ord) ==
  IF active[2] THEN InstrumenterOnLeave(prog, node, scope, ord)
  ELSE Effect(<<>>, scope, TRUE, TRUE)

LeaveEffect(ord) ==
  IF active[2] \/ Resumes THEN InstrumenterOnLeave(prog, node, scope, ord)
  ELSE Effect(<<>>, scope, TRUE, TRUE)

\* one iteration of walk's step 1: composition.on_visit(node), then
\* cursor.goto_first_child() when any visitor is still active
Visit ==
  /\ pc = "walk" /\ phase = "visit"
  /\ traversal_order_ok(<<line, line_offset>>, StartPoint(prog, node))
  /\ \E ord \in Orders(VarTexts(prog, TargetRoot(prog, node, "visit"))) :
       LET eff == VisitEffect(ord)
           act == [active EXCEPT ![2] = active[2] /\ eff.descend]
       IN /\ eff.ok
          /\ line' = StartPoint(prog, node)[1]
          /\ line_offset' = StartPoint(prog, node)[2]
          /\ bad_entry' = (bad_entry \/ PointLess(StartPoint(prog, node), <<line, line_offset>>))
          /\ instrumentation' = instrumentation \o eff.patches
          /\ scope' = eff.scope
          /\ active' = act
          /\ resume_on' = IF active[2] /\ ~eff.descend
                          THEN [resume_on EXCEPT ![2] = node] ELSE resume_on
          /\ IF (act[1] \/ act[2]) /\ Children(prog, node) # <<>>
             THEN node' = Children(prog, node)[1] /\ phase' = "visit"
             ELSE node' = node /\ phase' = "leave"
  /\ UNCHANGED <<pc, prog, source_lines, output, output_file, source_code, code,
                 replacings, scan>>
  /\ UNCHANGED witnessVars

\* an assertion fails inside on_visit: the exception leaves _instrument,
\* support_extensions and instrument; nothing is written
Abort ==
  /\ pc = "walk" /\ phase = "visit"
  /\ \/ ~traversal_order_ok(<<line, line_offset>>, StartPoint(prog, node))
     \/ \E ord \in Orders(VarTexts(prog, TargetRoot(prog, node, "visit"))) : ~VisitEffect(ord).ok
  /\ bad_entry' = (bad_entry \/ PointLess(StartPoint(prog, node), <<line, line_offset>>))
  /\ pc' = "aborted"
  /\ UNCHANGED <<source_lines, instrumentation, output, output_file, prog, node, phase,
                 line, line_offset, scope, active, resume_on, source_code, code,
                 replacings, scan>>
  /\ UNCHANGED witnessVars

\* walk's steps 2 and 3: composition.on_leave(node), then the next sibling,
\* else the parent (to be left in turn), else the walk ends
Leave ==
  /\ pc = "walk" /\ phase = "leave"
  /\ \E ord \in Orders(VarTexts(prog, TargetRoot(prog, node, "leave"))) :
       LET eff == LeaveEffect(ord)
       IN /\ line' = EndPoint(prog, node)[1]
          /\ line_offset' = EndPoint(prog, node)[2]
          /\ instrumentation' = instrumentation \o eff.patches
          /\ scope' = eff.scope
          /\ active' = IF Resumes THEN [active EXCEPT ![2] = TRUE] ELSE active
          /\ resume_on' = IF Resumes THEN [resume_on EXCEPT ![2] = 0] ELSE resume_on
  /\ IF NextSibling(prog, node) # 0
     THEN node' = NextSibling(prog, node) /\ phase' = "visit" /\ pc' = pc
     ELSE IF Parent(prog, node) # 0
          THEN node' = Parent(prog, node) /\ phase' = "leave" /\ pc' = pc
          ELSE node' = node /\ phase' = "done" /\ pc' = "code"
  /\ UNCHANGED <<prog, source_lines, output, output_file, bad_entry, source_code, code,
                 replacings, scan>>
  /\ UNCHANGED witnessVars

----------------------------------------------------------------------------
(* instrumenter.code(), the restoration loop and the write *)

\* "".join(output): every annotation is rendered as one symbol
Render(pieces) ==
  Flatten([i \in 1..Len(pieces) |->
             IF pieces[i].src THEN pieces[i].text ELSE <<pieces[i].text.kind>>])

\* return instrumenter.code()
Code ==
  /\ pc = "code"
  /\ output' = CodePieces(source_lines, instrumentation, EmptyText)
  /\ code' = Render(CodePieces(source_lines, instrumentation, EmptyText))
  /\ pc' = "restore"
  /\ UNCHANGED <<source_lines, instrumentation, output_file, source_code, replacings, scan>>
  /\ UNCHANGED walkVars
  /\ UNCHANGED witnessVars

----------------------------------------------------------------------------
(* support_extensions *)

INLINE == <<"i", "n", "l", "i", "n", "e">>
RESTRICT == <<"r", "e", "s", "t", "r", "i", "c", "t">>
ATTRIBUTE == <<"_", "_", "a", "t", "t", "r", "i", "b", "u", "t", "e", "_", "_">>
CONST_QUALIFIER == <<"_", "_", "c", "o", "n", "s", "t", " ">>
INCLUDE == <<"#", "i", "n", "c", "l", "u", "d", "e", " ", "<", "s", "t", "d", "i", "o", ".",
             "h", ">", "\n">>

\* code = remove_comments(code); replacings = []
RemoveComments ==
  /\ pc = "remove_comments"
  /\ code' = remove_comments(source_code)
  /\ replacings' = <<>>
  /\ scan' = [NoScan EXCEPT !.code = remove_comments(source_code)]
  /\ pc' = "ext_outer"
  /\ UNCHANGED <<source_lines, instrumentation, output, output_file, source_code>>
  /\ UNCHANGED walkVars
  /\ UNCHANGED witnessVars

\* while r := re.search(unsupported, code): the locals are set up, or the
\* function returns its code
ExtOuter ==
  /\ pc = "ext_outer"
  /\ IF search(scan.code, EXTENSION) = -1
     THEN code' = scan.code /\ scan' = scan /\ pc' = "keywords"
     ELSE code' = code /\ scan' = ScanStart(scan.code) /\ pc' = "ext_inner"
  /\ UNCHANGED <<source_lines, instrumentation, output, output_file, source_code, replacings>>
  /\ UNCHANGED walkVars
  /\ UNCHANGED witnessVars

\* one pass of the inner `while True`
ExtScan ==
  /\ pc = "ext_inner"
  /\ ~ScanRaises(scan)
  /\ scan' = ScanStep(scan)
  /\ pc' = IF ScanBreaks(scan) THEN "ext_replace" ELSE "ext_inner"
  /\ UNCHANGED <<source_lines, instrumentation, output, output_file, source_code, code,
                 replacings>>
  /\ UNCHANGED walkVars
  /\ UNCHANGED witnessVars

\* mutant: the entries recorded before the failure are kept
ExtRaise_keeps_entries ==
  /\ pc = "ext_inner"
  /\ ScanRaises(scan)
  /\ pc' = "keywords"
  /\ UNCHANGED <<source_lines, instrumentation, output, output_file, source_code, code, scan,
                 replacings>>
  /\ UNCHANGED walkVars
  /\ UNCHANGED witnessVars

\* raise ValueError, caught by support_extensions: replacings = [], and code
\* keeps the value it had before the call
ExtRaise ==
  /\ pc = "ext_inner"
  /\ ScanRaises(scan)
  /\ replacings' = <<>>
  /\ pc' = "keywords"
  /\ UNCHANGED <<source_lines, instrumentation, output, output_file, source_code, code, scan>>
  /\ UNCHANGED walkVars
  /\ UNCHANGED witnessVars

\* the block found is replaced by an extern declaration and recorded (the
\* outer loop can go on for ever with a growing text: the model follows it
\* for MaxMasks rounds)
ExtReplace ==
  /\ pc = "ext_replace"
  /\ Len(replacings) < MaxMasks
  /\ scan' = [scan EXCEPT !.code = Masked(scan).code]
  /\ replacings' = Append(replacings, Masked(scan).pair)
  /\ pc' = "ext_outer"
  /\ UNCHANGED <<source_lines, instrumentation, output, output_file, source_code, code>>
  /\ UNCHANGED walkVars
  /\ UNCHANGED witnessVars

\* re.search(f"(?<!__){keyword}", code)
PlainKeyword(c, keyword) ==
  \E i \in 0..(Len(c) - Len(keyword)) :
    IsAt(c, keyword, i) /\ ~(i >= 2 /\ IsAt(c, <<"_", "_">>, i - 2))

HasKeyword(c, keyword) ==
  search(c, <<"_", "_">> \o keyword \o <<" ">>) # -1 /\ ~PlainKeyword(c, keyword)

KeywordCode(c, keyword) ==
  IF HasKeyword(c, keyword) THEN replace(c, <<"_", "_">> \o keyword, keyword) ELSE c

KeywordPairs(c, keyword) ==
  IF HasKeyword(c, keyword) THEN <<<<keyword, <<"_", "_">> \o keyword>>>> ELSE <<>>

\* for keyword in ("inline", "restrict")
Keywords ==
  /\ pc = "keywords"
  /\ code' = KeywordCode(KeywordCode(code, INLINE), RESTRICT)
  /\ replacings' = replacings \o KeywordPairs(code, INLINE)
                     \o KeywordPairs(KeywordCode(code, INLINE), RESTRICT)
  /\ pc' = "externs"
  /\ UNCHANGED <<source_lines, instrumentation, output, output_file, source_code, scan>>
  /\ UNCHANGED walkVars
  /\ UNCHANGED witnessVars

\* The loop over extern declarations with attribute annotations or __const:
\* its pattern needs one of the two spellings, which no text of the model
\* holds, so the loop is left at once.
Externs ==
  /\ pc = "externs"
  /\ search(code, ATTRIBUTE) = -1 /\ search(code, CONST_QUALIFIER) = -1
  /\ pc' = "parse"
  /\ UNCHANGED <<source_lines, instrumentation, output, output_file, source_code, code,
                 replacings, scan>>
  /\ UNCHANGED walkVars
  /\ UNCHANGED witnessVars

Blank(text) == \A i \in 1..Len(text) : Class(text[i]) = "s"

\* the names of the patches drawn as inputs
PatchNames == <<"P1", "P2", "P3", "P4">>

DrawnPatch(pos, k) == Patch(pos, PatchNames[k], NoObservation, <<>>, 0)

\* the patch lists of at most max patches at the coordinates in coords
PatchLists(coords, max) ==
  UNION {{[k \in 1..n |-> DrawnPatch(f[k], k)] : f \in [1..n -> coords]} : n \in 0..max}

\* the coordinates right after a ";", "{" or "}"
BoundaryCoords(lines) ==
  UNION {{<<l - 1, c>> : c \in {k \in 1..Len(lines[l]) : lines[l][k] \in {";", "{", "}"}}} :
         l \in 1..Len(lines)}

\* code = func(code), first half: the text is parsed (code_ast.ast splits it
\* into lines) and traversed; the traversal is taken to leave any patch list at
\* statement boundaries
Parse ==
  /\ pc = "parse"
  /\ ~Blank(code)
  /\ source_lines' = splitlines(code)
  /\ instrumentation' \in PatchLists(BoundaryCoords(splitlines(code)), MaxPipePatches)
  /\ pc' = "code"
  /\ UNCHANGED <<output, output_file, source_code, code, replacings, scan>>
  /\ UNCHANGED walkVars
  /\ UNCHANGED witnessVars

\* code_ast.ast raises ValueError for a text without any token
ParseError ==
  /\ pc = "parse"
  /\ Blank(code)
  /\ pc' = "aborted"
  /\ UNCHANGED <<source_lines, instrumentation, output, output_file, source_code, code,
                 replacings, scan>>
  /\ UNCHANGED walkVars
  /\ UNCHANGED witnessVars

\* for pair in replacings: code = re.sub(pair[0], pair[1], code)
Restore ==
  /\ pc = "restore"
  /\ code' = Restored(code, replacings)
  /\ pc' = "write"
  /\ UNCHANGED <<source_lines, instrumentation, output, output_file, source_code,
                 replacings, scan>>
  /\ UNCHANGED walkVars
  /\ UNCHANGED witnessVars

\* o.write("#include <stdio.h>\n"); o.write(transformed_code)
Write ==
  /\ pc = "write"
  /\ output_file' = [written |-> TRUE, text |-> INCLUDE \o code]
  /\ pc' = "done"
  /\ UNCHANGED <<source_lines, instrumentation, output, source_code, code, replacings, scan>>
  /\ UNCHANGED walkVars
  /\ UNCHANGED witnessVars

----------------------------------------------------------------------------
(* Specifications *)

NoFile == [written |-> FALSE, text |-> <<>>]

WalkIdle ==
  /\ prog = "ProgError" /\ node = 0 /\ phase = "done" /\ line = 0 /\ line_offset = 0
  /\ scope = <<>> /\ active = <<TRUE, TRUE>> /\ resume_on = <<0, 0>> /\ bad_entry = FALSE

\* _populate_witness is not running
WitnessIdle ==
  /\ exec_output = <<>> /\ pending = <<>> /\ observations = <<>>
  /\ _nodes = <<>> /\ _edges = <<>> /\ current_node = <<>> /\ obs_index = 0 /\ wpc = "idle"

\* Spec: _instrument on a parsed program.  The programs hold no comment, no
\* extension marker, no __inline/__restrict and no extern, so the steps of
\* support_extensions before the callback leave the text as it is.
Init ==
  /\ prog \in ProgramNames
  /\ pc = "walk"
  /\ node = 1 /\ phase = "visit"
  /\ line = 0 /\ line_offset = 0
  /\ scope = <<>>
  /\ active = <<TRUE, TRUE>> /\ resume_on = <<0, 0>>
  /\ bad_entry = FALSE
  /\ instrumentation = <<>>
  /\ source_lines = Program(prog).lines
  /\ source_code = Join(<<NL>>, Program(prog).lines)
  /\ output = <<>> /\ output_file = NoFile
  /\ code = Join(<<NL>>, Program(prog).lines)
  /\ replacings = <<>> /\ scan = NoScan
  /\ WitnessIdle

Next == Visit \/ Leave \/ Abort \/ Code \/ Restore \/ Write

Spec == Init /\ [][Next]_vars

\* SpecCode: ProgramInstrumenter.code on a drawn source text and patch list
Chars == {"a", NL}

CodeTexts ==
  {t \in UNION {[1..n -> Chars] : n \in 1..MaxLen} : ~Blank(t)}

AllCoords(lines) ==
  UNION {{<<l - 1, c>> : c \in 0..Len(lines[l])} : l \in 1..Len(lines)}
    \cup {<<Len(lines), 0>>}

InitCode ==
  /\ source_code \in CodeTexts
  /\ source_lines = splitlines(source_code)
  /\ instrumentation \in PatchLists(AllCoords(splitlines(source_code)), MaxPatches)
  /\ pc = "code"
  /\ output = <<>> /\ output_file = NoFile
  /\ code = source_code /\ replacings = <<>> /\ scan = NoScan
  /\ WalkIdle
  /\ WitnessIdle

NextCode == Code \/ Restore \/ Write

SpecCode == InitCode /\ [][NextCode]_vars

\* SpecPipe: instrument on a source file made of at most MaxDecls snippets
Snippets ==
  {<<"x", ";">>,
   <<NL>>,
   <<"/", "*", "c", "*", "/">>,
   <<"g", "(", ")", "{", "y", ";", "}">>,
   <<"f", "(", ")", "{", "_", "_", "e", "x", "t", "e", "n", "s", "i", "o", "n", "_", "_", ";", "}">>,
   <<"_", "_", "e", "x", "t", "e", "n", "s", "i", "o", "n", "_", "_", " ", "t", ";">>,
   <<"{">>,
   <<"_", "_", "i", "n", "l", "i", "n", "e", " ", "h", ";">>}

SourceTexts == {Flatten(ds) : ds \in UNION {[1..n -> Snippets] : n \in 1..MaxDecls}}

InitPipe ==
  /\ source_code \in SourceTexts
  /\ pc = "remove_comments"
  /\ source_lines = <<>> /\ instrumentation = <<>>
  /\ output = <<>> /\ output_file = NoFile
  /\ code = source_code /\ replacings = <<>> /\ scan = NoScan
  /\ WalkIdle
  /\ WitnessIdle

NextPipe ==
  \/ RemoveComments \/ ExtOuter \/ ExtScan \/ ExtRaise \/ ExtReplace \/ Keywords \/ Externs
  \/ Parse \/ ParseError \/ Code \/ Restore \/ Write

SpecPipe == InitPipe /\ [][NextPipe]_vars

\* the interpreter goes on running the scan loop: a pass of the inner loop
\* that can change the locals, or the raise, is eventually taken
SpecPipeFair == SpecPipe /\ WF_vars(ExtScan \/ ExtRaise)


----------------------------------------------------------------------------
(* _parse_observations and _populate_witness (test2witness.py),            *)
(* WitnessAutomaton.node and edge (witness.py)                             *)

\* A line of the trace output: kind "text" is no JSON, "scalar" is JSON but
\* no object, "object" is a JSON object, held as a function from its keys.
Line(kind, object) == [kind |-> kind, object |-> object]

ObsPlain == ("sourcecode" :> "y = 1;") @@ ("startline" :> 1) @@ ("endline" :> 1)

ObsBranch ==
  ("sourcecode" :> "[x]") @@ ("startline" :> 2) @@ ("endline" :> 3)
    @@ ("control" :> "condition-true") @@ ("assumption" :> "x == (1);")
    @@ ("assumption.scope" :> "main")

\* JSON objects that are no observation of the instrumentation
ObsForeign == ("pid" :> 7)
ObsNoLine == ("sourcecode" :> "z;")

Lines ==
  {Line("text", <<>>), Line("scalar", <<>>), Line("object", ObsPlain),
   Line("object", ObsBranch), Line("object", ObsForeign), Line("object", ObsNoLine)}

\* json.loads(line) succeeds and yields a dict
IsObservation(l) == l.kind = "object"

\* observation.get(key, None): None is <<>>, a value v is <<v>>
get(observation, key) == IF key \in DOMAIN observation THEN <<observation[key]>> ELSE <<>>

Necessaries == <<"sourcecode", "startline", "endline">>

\* the attribute an optional key of the observation is stored under
Optionals ==
  ("assumption" :> "assumption") @@ ("assumption_scope" :> "assumption.scope")
    @@ ("control" :> "control") @@ ("enterFunction" :> "enterFunction")
    @@ ("returnFromFunction" :> "returnFromFunction")

\* how many of the necessary keys are read before a KeyError (all: none is raised)
NecessariesRead(observation) ==
  IF \A k \in 1..Len(Necessaries) : Necessaries[k] \in DOMAIN observation
  THEN Len(Necessaries)
  ELSE Min({k \in 1..Len(Necessaries) : Necessaries[k] \notin DOMAIN observation}) - 1

KeyError(observation) == NecessariesRead(observation) < Len(Necessaries)

\* Edge._attrs after the assignments of the loop body that were reached
EdgeAttrs(observation) ==
  LET read == {Necessaries[k] : k \in 1..NecessariesRead(observation)}
      necessaries == [a \in read |-> observation[a]]
  IN IF KeyError(observation) THEN necessaries
     ELSE necessaries @@ [a \in DOMAIN Optionals |-> get(observation, Optionals[a])]

\* mutant: the default id is counted from the edges
default_node_id_by_edges(nodes, edges) == <<"N", Len(edges)>>

\* node_id = "N%d" % len(self._nodes)
default_node_id(nodes, edges) == <<"N", Len(nodes)>>

\* ProgramState(node_id); entry and violation FALSE: the attribute is not set
ProgramState(node_id) == [node_id |-> node_id, entry |-> FALSE, violation |-> FALSE]

\* WitnessAutomaton.node(): the dictionary after the call
node_call(nodes, node_id) ==
  IF \E i \in 1..Len(nodes) : nodes[i].node_id = node_id THEN nodes
  ELSE Append(nodes, ProgramState(node_id))

\* Edge(edge_id, src_node, target_node) with its attributes
Edge(edge_id, src_node, target_node, attrs) ==
  [edge_id |-> edge_id, src_node |-> src_node, target_node |-> target_node, attrs |-> attrs]

\* WitnessAutomaton.edge(src_node, target_node): the dictionary after the call
edge_call(edges, src_node, target_node) ==
  IF \E i \in 1..Len(edges) : edges[i].edge_id = <<"E", Len(edges)>> THEN edges
  ELSE Append(edges, Edge(<<"E", Len(edges)>>, src_node, target_node, <<>>))

\* node.<attribute> = True on the node of the given id
SetNode(nodes, node_id, attribute) ==
  [i \in 1..Len(nodes) |->
     IF nodes[i].node_id # node_id THEN nodes[i]
     ELSE IF attribute = "entry" THEN [nodes[i] EXCEPT !.entry = TRUE]
     ELSE [nodes[i] EXCEPT !.violation = TRUE]]

\* one pass of the loop of _parse_observations
ParseLine ==
  /\ wpc = "parse" /\ pending # <<>>
  /\ observations' = IF IsObservation(Head(pending))
                     THEN Append(observations, Head(pending).object) ELSE observations
  /\ pending' = Tail(pending)
  /\ UNCHANGED <<exec_output, _nodes, _edges, current_node, obs_index, wpc>>
  /\ UNCHANGED <<pc, source_lines, instrumentation, output, output_file, source_code>>
  /\ UNCHANGED walkVars /\ UNCHANGED pipeVars

\* init_node = witness.node(); init_node.entry = True; current_node = init_node
InitNode ==
  /\ wpc = "parse" /\ pending = <<>>
  /\ LET node_id == default_node_id(_nodes, _edges)
     IN /\ _nodes' = SetNode(node_call(_nodes, node_id), node_id, "entry")
        /\ current_node' = node_id
  /\ obs_index' = 1
  /\ wpc' = "loop"
  /\ UNCHANGED <<exec_output, pending, observations, _edges>>
  /\ UNCHANGED <<pc, source_lines, instrumentation, output, output_file, source_code>>
  /\ UNCHANGED walkVars /\ UNCHANGED pipeVars

\* one pass of the loop of _populate_witness; a missing necessary key raises
\* KeyError after the node and the edge were made
AddEdge ==
  /\ wpc = "loop" /\ obs_index <= Len(observations)
  /\ LET observation == observations[obs_index]
         node_id == default_node_id(_nodes, _edges)
         edges == edge_call(_edges, current_node, node_id)
     IN /\ _nodes' = node_call(_nodes, node_id)
        /\ _edges' = [edges EXCEPT ![Len(edges)].attrs = EdgeAttrs(observation) @@ @]
        /\ IF KeyError(observation)
           THEN wpc' = "raised" /\ current_node' = current_node /\ obs_index' = obs_index
           ELSE wpc' = wpc /\ current_node' = node_id /\ obs_index' = obs_index + 1
  /\ UNCHANGED <<exec_output, pending, observations>>
  /\ UNCHANGED <<pc, source_lines, instrumentation, output, output_file, source_code>>
  /\ UNCHANGED walkVars /\ UNCHANGED pipeVars

\* current_node.violation = True; return witness
MarkViolation ==
  /\ wpc = "loop" /\ obs_index > Len(observations)
  /\ _nodes' = SetNode(_nodes, current_node, "violation")
  /\ wpc' = "done"
  /\ UNCHANGED <<exec_output, pending, observations, _edges, current_node, obs_index>>
  /\ UNCHANGED <<pc, source_lines, instrumentation, output, output_file, source_code>>
  /\ UNCHANGED walkVars /\ UNCHANGED pipeVars

TraceOutputs == UNION {[1..n -> Lines] : n \in 0..MaxLines}

InitWitness ==
  /\ exec_output \in TraceOutputs
  /\ pending = exec_output /\ observations = <<>>
  /\ _nodes = <<>> /\ _edges = <<>> /\ current_node = <<>> /\ obs_index = 0
  /\ wpc = "parse"
  /\ pc = "done"
  /\ source_lines = <<>> /\ instrumentation = <<>> /\ output = <<>> /\ output_file = NoFile
  /\ source_code = <<>> /\ code = <<>> /\ replacings = <<>> /\ scan = NoScan
  /\ WalkIdle

NextWitness == ParseLine \/ InitNode \/ AddEdge \/ MarkViolation

SpecWitness == InitWitness /\ [][NextWitness]_vars
----------------------------------------------------------------------------
(* Properties *)

\* the traversal and the reconstruction have completed
Finished == pc \in {"restore", "write", "done"}

\* the walk has completed (no assertion failed)
Walked == pc \in {"code", "restore", "write", "done"}

FunctionName(p, f) ==
  match(p, child_by_field_name(p, child_by_field_name(p, f, "declarator"), "declarator"))

ErrorFunctions(p) ==
  {f \in NodeIds(p) : Type(p, f) = "function_definition" /\ FunctionName(p, f) \in ERROR_FUNCS}

InErrorFunction(p, n) == \E f \in ErrorFunctions(p) : InSubtree(p, n, f)

\* the names of the function definitions around n, outermost first
RECURSIVE EnclosingFunctions(_, _)
EnclosingFunctions(p, n) ==
  IF n = 0 THEN <<>>
  ELSE EnclosingFunctions(p, Parent(p, n))
         \o (IF Type(p, n) = "function_definition" THEN <<FunctionName(p, n)>> ELSE <<>>)

\* the expression statements the Instrumenter handles
Statements(p) ==
  {n \in NodeIds(p) : Type(p, n) = "expression_statement" /\ ~InErrorFunction(p, n)}

IsErrorCall(p, n) ==
  /\ Type(p, Children(p, n)[1]) = "call_expression"
  /\ match(p, child_by_field_name(p, Children(p, n)[1], "function")) \in ERROR_FUNCS

\* the indices of the patches node n produced
PatchesBy(n) == {i \in 1..Len(instrumentation) : instrumentation[i].by = n}
ObservationsBy(n) == {i \in PatchesBy(n) : instrumentation[i].text.kind = "fprintf"}
Range(s) == {s[i] : i \in 1..Len(s)}

\* C1 (as claimed): deleting the inserted patch texts from the output of
\* ProgramInstrumenter.code yields exactly the original source text.
C1_InsertionOnly == Finished => SrcOnly(output) = source_code

\* C2 (as claimed): when the patch list stays empty the output file is the
\* input text preceded only by the include line.
C2_RoundTrip ==
  (pc = "done" /\ instrumentation = <<>>) => output_file.text = INCLUDE \o source_code

\* the place of the k-th produced patch in the output list
PieceOf(k) ==
  CHOOSE i \in 1..Len(output) : ~output[i].src /\ output[i].text = instrumentation[k].text

\* C3: patches of identical coordinate appear in the reconstructed output in
\* the order in which they were produced.
C3_TieOrder ==
  (Finished /\ instrumentation # <<>>) =>
    \A i, j \in 1..Len(instrumentation) :
      (i < j /\ instrumentation[i].pos = instrumentation[j].pos) => PieceOf(i) < PieceOf(j)

C3_Witness ==
  /\ pc = "done"
  /\ \E i, j \in 1..Len(instrumentation) :
       i < j /\ instrumentation[i].pos = instrumentation[j].pos
         /\ instrumentation[i].text # instrumentation[j].text

\* the cursor the location tracker must hold before on_visit / on_leave of node
ExpectedCursor(p, n, ph) ==
  IF ph = "visit"
  THEN IF Parent(p, n) = 0 THEN <<0, 0>>
       ELSE IF Children(p, Parent(p, n))[1] = n THEN StartPoint(p, Parent(p, n))
       ELSE EndPoint(p, CHOOSE m \in NodeIds(p) : NextSibling(p, m) = n)
  ELSE IF Children(p, n) = <<>> THEN StartPoint(p, n) ELSE EndPoint(p, LastChild(p, n))

\* C4: the cursor is the start of the node just entered or the end of the node
\* just left; once a node is presented whose start lies before the cursor the
\* instrumentation is aborted and no output file is written.
C4_MonotonicAbort ==
  /\ (pc = "walk" /\ phase \in {"visit", "leave"}) =>
       <<line, line_offset>> = ExpectedCursor(prog, node, phase)
  /\ bad_entry => (pc = "aborted" /\ ~output_file.written /\ output = <<>>)
  /\ pc = "aborted" => ~output_file.written

C4_Witness == pc = "aborted" /\ bad_entry /\ instrumentation # <<>>

Inside(p, pos, n) == PointLeq(StartPoint(p, n), pos) /\ PointLeq(pos, EndPoint(p, n))

\* C5: no patch lies inside the body of an error-marker function and no node
\* of such a function produces one; after the walk every expression statement
\* outside these functions has its observation.
C5_ErrorMarkerExclusion ==
  /\ \A f \in ErrorFunctions(prog) : \A i \in 1..Len(instrumentation) :
       /\ ~Inside(prog, instrumentation[i].pos, child_by_field_name(prog, f, "body"))
       /\ ~InSubtree(prog, instrumentation[i].by, f)
  /\ Walked => \A n \in Statements(prog) : ObservationsBy(n) # {}

C5_Witness ==
  /\ pc = "done"
  /\ \E f \in ErrorFunctions(prog) : \E n \in NodeIds(prog) :
       /\ Type(prog, n) \in {"if_statement", "expression_statement"}
       /\ InSubtree(prog, n, f)
       /\ \E m \in Statements(prog) : PointLeq(EndPoint(prog, f), StartPoint(prog, m))

\* the if statements the Instrumenter handles
IfNodes(p) == {n \in NodeIds(p) : Type(p, n) = "if_statement" /\ ~InErrorFunction(p, n)}

ConditionPatches(n, control) ==
  {i \in ObservationsBy(n) : instrumentation[i].text.json.control = control}

\* where the true-branch body starts: the first item inside a block, else the
\* unbraced statement
BodyStart(p, n) ==
  LET c == child_by_field_name(p, n, "consequence")
  IN IF Type(p, c) = "compound_statement" THEN StartPoint(p, Children(p, c)[2])
     ELSE StartPoint(p, c)

\* C6: an if without else yields exactly one condition observation, marked
\* condition-true and placed at the start of the true-branch body, and no
\* condition-false one; an if yields a condition-false observation only when
\* it has an else branch.
C6_IfWithoutElse ==
  /\ \A n \in IfNodes(prog) :
       ConditionPatches(n, "condition-false") # {} =>
         child_by_field_name(prog, n, "alternative") # 0
  /\ Walked => \A n \in IfNodes(prog) :
       child_by_field_name(prog, n, "alternative") = 0 =>
         /\ Cardinality(ObservationsBy(n)) = 1
         /\ Cardinality(ConditionPatches(n, "condition-true")) = 1
         /\ \A i \in ObservationsBy(n) : instrumentation[i].pos = BodyStart(prog, n)

C6_Witness ==
  /\ pc = "done"
  /\ \E n, m \in IfNodes(prog) :
       /\ child_by_field_name(prog, n, "alternative") = 0
       /\ Type(prog, child_by_field_name(prog, n, "consequence")) = "compound_statement"
       /\ ConditionPatches(n, "condition-true") # {}
       /\ child_by_field_name(prog, m, "alternative") # 0
       /\ ConditionPatches(m, "condition-false") # {}

\* C7 (as claimed): the variable set of an assignment statement holds only the
\* written (left-hand side) target.
C7_WriteTargets ==
  \A n \in Statements(prog) : \A i \in ObservationsBy(n) :
    (Type(prog, Children(prog, n)[1]) = "assignment_expression"
       /\ instrumentation[i].pos = EndPoint(prog, n)) =>
      Range(instrumentation[i].text.args)
        = {match(prog, child_by_field_name(prog, Children(prog, n)[1], "left"))}

\* the masking step has returned or has been abandoned
MaskingOver == pc \notin {"remove_comments", "ext_outer", "ext_inner", "ext_replace"}

\* C8 (as claimed): only declarations enclosing the extension marker are
\* masked, and each masked text reappears verbatim in the output file.
C8_MaskRestore ==
  /\ MaskingOver => \A k \in 1..Len(replacings) : search(replacings[k][2], EXTENSION) # -1
  /\ (pc = "done" /\ instrumentation = <<>>) =>
       \A k \in 1..Len(replacings) : search(output_file.text, replacings[k][2]) # -1

ErrorCalls(p) == {n \in Statements(p) : IsErrorCall(p, n)}

\* C9 (as claimed): a direct call to an error-marker function yields exactly
\* one observation patch for its statement.
C9_SingleObservation ==
  Walked => \A n \in ErrorCalls(prog) : Cardinality(ObservationsBy(n)) = 1

\* C9 (amended): the statement yields exactly one observation at its start
\* coordinate, with the source text, the 1-based start and end line and no
\* assumption field; the only other patch of the statement is the
\* end-of-statement observation, at its end coordinate.
C9_ErrorCallObservation ==
  Walked => \A n \in ErrorCalls(prog) :
    LET atStart == {i \in ObservationsBy(n) : instrumentation[i].pos = StartPoint(prog, n)}
        atEnd == {i \in ObservationsBy(n) : instrumentation[i].pos = EndPoint(prog, n)}
    IN /\ Cardinality(atStart) = 1
       /\ \A i \in atStart :
            /\ instrumentation[i].text.json.sourcecode = html_escape(match(prog, n))
            /\ instrumentation[i].text.json.startline = StartPoint(prog, n)[1] + 1
            /\ instrumentation[i].text.json.endline = EndPoint(prog, n)[1] + 1
            /\ ~instrumentation[i].text.json.has_assumption
            /\ instrumentation[i].text.args = <<>>
            /\ \A j \in atEnd : i < j
       /\ Cardinality(atEnd) = 1
       /\ PatchesBy(n) = atStart \cup atEnd

C9_Witness ==
  /\ pc = "done"
  /\ \E n \in ErrorCalls(prog) : \E i \in ObservationsBy(n) :
       instrumentation[i].pos = StartPoint(prog, n)

GeneralStatements(p) == {n \in Statements(p) : ~IsErrorCall(p, n)}

\* C10 (as claimed): a general expression statement yields one observation at
\* its end coordinate when its target set is non-empty and none when it is
\* empty.
C10_ObservationIffTargets ==
  Walked => \A n \in GeneralStatements(prog) :
    Cardinality(PatchesBy(n)) = IF VarTexts(prog, n) = {} THEN 0 ELSE 1

\* C10 (amended): a general expression statement yields exactly one
\* observation, at its end coordinate, whether or not its target set is empty;
\* with a non-empty set it carries one equality clause and one argument per
\* target and the scope path, with an empty set no assumption and no scope.
C10_EndObservation ==
  Walked => \A n \in GeneralStatements(prog) :
    /\ Cardinality(PatchesBy(n)) = 1
    /\ \A i \in PatchesBy(n) :
         LET t == instrumentation[i].text IN
         /\ t.kind = "fprintf"
         /\ instrumentation[i].pos = EndPoint(prog, n)
         /\ t.json.sourcecode = html_escape(match(prog, n))
         /\ t.json.control = ""
         /\ t.json.has_assumption = (VarTexts(prog, n) # {})
         /\ Range(t.json.assumption) = VarTexts(prog, n)
         /\ Len(t.json.assumption) = Cardinality(VarTexts(prog, n))
         /\ t.args = t.json.assumption
         /\ t.json.scope = IF VarTexts(prog, n) # {} THEN EnclosingFunctions(prog, n) ELSE <<>>

C10_Witness ==
  /\ pc = "done"
  /\ \E n, m \in GeneralStatements(prog) :
       /\ VarTexts(prog, n) = {} /\ PatchesBy(n) # {}
       /\ Cardinality(VarTexts(prog, m)) > 1 /\ PatchesBy(m) # {}

\* the loops the Instrumenter handles whose body is not a block
UnbracedLoops(p) ==
  {n \in NodeIds(p) : /\ Type(p, n) \in LoopTypes
                      /\ ~InErrorFunction(p, n)
                      /\ LoopBody(p, n) # 0
                      /\ Type(p, LoopBody(p, n)) # "compound_statement"}

BracesBy(n, kind) == {i \in PatchesBy(n) : instrumentation[i].text.kind = kind}

\* C11 (as claimed): for a loop with an unbraced body the opening brace is
\* placed at the start coordinate of the body and the closing brace at its end
\* coordinate, and the condition-true observation does not precede the opening
\* brace.
C11_LoopBraces ==
  Walked => \A n \in UnbracedLoops(prog) :
    /\ Cardinality(BracesBy(n, "{\n")) = 1
    /\ Cardinality(BracesBy(n, "\n}")) = 1
    /\ \A i \in BracesBy(n, "{\n") :
         /\ instrumentation[i].pos = StartPoint(prog, LoopBody(prog, n))
         /\ \A j \in ConditionPatches(n, "condition-true") :
              PointLeq(instrumentation[i].pos, instrumentation[j].pos)
    /\ \A i \in BracesBy(n, "\n}") :
         instrumentation[i].pos = EndPoint(prog, LoopBody(prog, n))

\* the text before restoration: the reconstructed output of the instrumentation
Instrumented == Render(output)

RECURSIVE RestoredFirst(_, _)
RestoredFirst(text, pairs) ==
  IF pairs = <<>> THEN text
  ELSE RestoredFirst(re_sub_first(pairs[1][1], pairs[1][2], text), Tail(pairs))

\* C12 (as claimed): restoration replaces at most one occurrence of the pattern
\* of each entry and leaves later matches unchanged.
C12_FirstMatchOnly ==
  pc \in {"write", "done"} => code = RestoredFirst(Instrumented, replacings)

\* where pattern matches in text
Matches(pattern, text) ==
  {j \in 0..(Len(text) - 1) : MatchAt(Compile(pattern), 1, text, j) > j}

Occurrences(text, sub) ==
  Cardinality({i \in 0..(Len(text) - Len(sub)) : IsAt(text, sub, i)})

KeywordEntry(keyword) == <<keyword, <<"_", "_">> \o keyword>>

\* C12 (amended): each entry is applied once, in creation order, to every
\* match of its pattern: after restoration no text matching the pattern of a
\* masked declaration is left, and every occurrence of a replaced keyword
\* has its original spelling again, as often as in the comment-stripped input.
C12_EveryMatchRestored ==
  pc \in {"write", "done"} =>
    /\ \A k \in 1..Len(replacings) :
         search(replacings[k][2], EXTENSION) # -1 => Matches(replacings[k][1], code) = {}
    /\ \A keyword \in {INLINE, RESTRICT} :
         KeywordEntry(keyword) \in Range(replacings) =>
           /\ ~PlainKeyword(code, keyword)
           /\ Occurrences(code, KeywordEntry(keyword)[2])
                = Occurrences(remove_comments(source_code), KeywordEntry(keyword)[2])

C12_Witness ==
  /\ pc = "done"
  /\ replacings # <<>>
  /\ Cardinality(Matches(replacings[1][1], Instrumented)) > 1
  /\ Matches(replacings[1][1], output_file.text) = {}

\* the masking step was abandoned: it is over and its working text still
\* holds a marker
Abandoned == MaskingOver /\ search(scan.code, EXTENSION) # -1

\* C13: when the brace scan fails the masking step is abandoned as a whole:
\* the text handed on is the comment-stripped input, the restoration list
\* holds no entry of the masking step (later only keyword entries), and no
\* extern declaration reaches the output.
C13_NoPartialMasking ==
  Abandoned =>
    /\ pc = "keywords" => (code = remove_comments(source_code) /\ replacings = <<>>)
    /\ \A k \in 1..Len(replacings) :
         replacings[k] \in {KeywordEntry(INLINE), KeywordEntry(RESTRICT)}
    /\ pc \in {"externs", "parse"} =>
         code = KeywordCode(KeywordCode(remove_comments(source_code), INLINE), RESTRICT)
    /\ (pc = "done" /\ instrumentation = <<>>) => search(output_file.text, EXTERN) = -1

\* the step had masked a declaration before it failed
C13_Witness ==
  /\ pc = "done"
  /\ Abandoned
  /\ search(scan.code, EXTERN) # -1
  /\ replacings = <<>>

\* C14 (as claimed): the brace scan of unsupported_to_extern never loops for
\* ever: once entered it is left, by finding the block or by raising.
C14_ScanTerminates == (pc = "ext_inner") ~> (pc # "ext_inner")

\* the function definitions being visited: those around the node and, once
\* it is entered, the node itself
Visiting(p, n, ph) ==
  IF ph = "visit" THEN EnclosingFunctions(p, Parent(p, n)) ELSE EnclosingFunctions(p, n)

\* C15: during the walk the scope stack holds the names of the function
\* definitions being visited, outermost first, also inside and after an
\* error-marker function; every scope path emitted is that of the emitting
\* node; the stack is empty once the traversal has ended.
C15_ScopeDiscipline ==
  /\ pc = "walk" => scope = Visiting(prog, node, phase)
  /\ \A i \in 1..Len(instrumentation) :
       instrumentation[i].text.json.has_assumption =>
         instrumentation[i].text.json.scope = EnclosingFunctions(prog, instrumentation[i].by)
  /\ Walked => scope = <<>>

\* an error-marker function was skipped and a later function emitted its scope
C15_Witness ==
  /\ pc = "done" /\ scope = <<>>
  /\ \E f \in ErrorFunctions(prog) : \E i \in 1..Len(instrumentation) :
       /\ instrumentation[i].text.json.has_assumption
       /\ instrumentation[i].text.json.scope # <<>>
       /\ PointLeq(EndPoint(prog, f), instrumentation[i].pos)

\* the trace statements whose rendered source text holds no percent sign
TraceStatements ==
  {i \in 1..Len(instrumentation) :
     /\ instrumentation[i].text.kind = "fprintf"
     /\ "%" \notin Range(instrumentation[i].text.json.sourcecode)}

\* where the formatting directives of a format string start
Directives(fmt) == {m \in 1..Len(fmt) : fmt[m] = "%"}

KthDirective(fmt, k) ==
  CHOOSE m \in Directives(fmt) : Cardinality({x \in Directives(fmt) : x < m}) = k - 1

\* C16: the format string of a trace statement holds exactly one directive
\* per captured variable, each the placeholder (%d) of an equality clause, as
\* many as the call has extra arguments, and the clause of the k-th
\* placeholder names the k-th extra argument.
C16_PlaceholderArguments ==
  \A i \in TraceStatements :
    LET t == instrumentation[i].text
        fmt == FormatString(t)
    IN /\ Cardinality(Directives(fmt)) = Len(t.args)
       /\ Cardinality(Range(t.args)) = Len(t.args)
       /\ Cardinality({j \in 1..Len(TrackArgs(t)) : TrackArgs(t)[j] = ","}) >= Len(t.args)
       /\ \A k \in 1..Len(t.args) :
            LET m == KthDirective(fmt, k)
                clause == t.args[k] \o <<" ", "=", "=", " ", "(">>
            IN /\ m > Len(clause) /\ m + 2 <= Len(fmt)
               /\ SubSeq(fmt, m - Len(clause), m - 1) = clause
               /\ fmt[m + 1] = "d" /\ fmt[m + 2] = ")"
               /\ fmt[m - Len(clause) - 1] \in {";", "\""}

C16_Witness ==
  /\ pc = "done"
  /\ \E i \in TraceStatements : Len(instrumentation[i].text.args) > 1
  /\ \E i \in TraceStatements : instrumentation[i].text.args = <<>>

\* the observations of a trace output: its JSON objects, in order
Parsed == [i \in 1..Len(SelectSeq(exec_output, IsObservation)) |->
             SelectSeq(exec_output, IsObservation)[i].object]

\* every JSON object of the trace output carries the necessary keys
WellFormed ==
  \A i \in 1..Len(Parsed) : \A k \in 1..Len(Necessaries) : Necessaries[k] \in DOMAIN Parsed[i]

\* the edge carries the fields of the observation
Carries(edge, observation) ==
  /\ \A k \in 1..Len(Necessaries) :
       /\ Necessaries[k] \in DOMAIN observation /\ Necessaries[k] \in DOMAIN edge.attrs
       /\ edge.attrs[Necessaries[k]] = observation[Necessaries[k]]
  /\ \A a \in DOMAIN Optionals :
       a \in DOMAIN edge.attrs /\ edge.attrs[a] = get(observation, Optionals[a])

\* nodes N0..Nk, edge i from N(i-1) to N(i) with the fields of observation i,
\* N0 marked entry and the last node alone marked violation
Chain ==
  LET k == Len(Parsed)
  IN /\ Len(_nodes) = k + 1
     /\ \A i \in 1..(k + 1) : _nodes[i].node_id = <<"N", i - 1>>
     /\ Len(_edges) = k
     /\ \A i \in 1..k :
          /\ _edges[i].src_node = <<"N", i - 1>>
          /\ _edges[i].target_node = <<"N", i>>
          /\ Carries(_edges[i], Parsed[i])
     /\ _nodes[1].entry
     /\ \A i \in 1..(k + 1) : _nodes[i].violation <=> i = k + 1

\* C17 (as claimed): for any trace output _populate_witness returns a linear
\* chain over the parsed observations.
C17_AnyTraceChain == wpc # "raised" /\ (wpc = "done" => Chain)

\* C17 (amended): when every JSON object of the trace output carries
\* sourcecode, startline and endline, _populate_witness returns the chain
\* N0..Nk over the k parsed observations, in order; every call of node()
\* makes a node distinct from the existing ones.
C17_WitnessChain ==
  WellFormed =>
    /\ wpc # "raised"
    /\ \A i, j \in 1..Len(_nodes) : i # j => _nodes[i].node_id # _nodes[j].node_id
    /\ wpc = "loop" =>
         /\ observations = Parsed
         /\ Len(_nodes) = obs_index /\ Len(_edges) = obs_index - 1
         /\ current_node = <<"N", obs_index - 1>>
    /\ wpc = "done" => Chain

C17_Witness ==
  /\ wpc = "done" /\ WellFormed
  /\ Len(_edges) > 1
  /\ Len(exec_output) > Len(observations)

====
